---- MODULE Spec2Model ----
(***************************************************************************)
(* A model of the traffic-analysis core of the DecentralizedHoneypot       *)
(* repository: the alert service (services/alerts/alertService.ts), the    *)
(* attack predictor (services/ai/predictor.ts with models/ddosModel.ts)    *)
(* and the traffic analyzer (services/traffic/analyzer.ts).                *)
(*                                                                         *)
(* Each component has its own specification over the shared variables:     *)
(*   SpecAlert     the AlertService singleton under raiseAlert calls       *)
(*   SpecRule      simpleRuleBasedClassification as a function of its input*)
(*   SpecPredict   two overlapping predictAttack calls on one snapshot     *)
(*   SpecAnalyzer  calculateMetrics as a function of the logs of a window  *)
(*   SpecHoneypot  BaseHoneypot under logTraffic calls and its cleanup timer*)
(*   SpecPaths     the same, for a source that has sent many distinct paths*)
(*   SpecDns       DnsHoneypot.handleDnsQuery                              *)
(*   SpecAlertLive SpecAlert with time that keeps passing                  *)
(*   SpecKey       the alert key as a function of raiseAlert's argument    *)
(*   SpecLedger    the AttackLogger contract under its calls               *)
(*   SpecLimiter   the RateLimiter under isRateLimited calls and cleanup   *)
(*   SpecHttp      HttpHoneypot's blocked addresses                        *)
(*   SpecManager   ModelManager under overlapping trainNewVersion calls    *)
(***************************************************************************)
EXTENDS Integers, Naturals, Sequences, FiniteSets, TLC

VARIABLES
    \* ---- AlertService ----
    now,            \* Date.now(), in ms
    ticks,          \* number of clock advances so far (bounds the run)
    activeAlerts,   \* Map<string, AttackAlert>: entries in insertion order
    listeners,      \* EventEmitter listeners of 'attack-alert', in order
    lastRaise,      \* what the raiseAlert call that led to this state did (observation)
    lastCreated,    \* per triple: when raiseAlert last created an alert for it
    \* ---- AttackPredictor.simpleRuleBasedClassification ----
    trafficData,    \* the TrafficData snapshot handed to the classifier
    ruleOut,        \* the AttackClassifications returned for it so far
    \* ---- AttackPredictor.predictAttack and DDoSModel ----
    model,          \* DDoSModel.model: the loaded or created network, or null
    savedModel,     \* the network saved under the current version, or null
    calls,          \* per predictAttack call: where it stands and its values
    \* ---- TrafficAnalyzer ----
    collection,     \* the TrafficLog documents of the window, run-length encoded
    metrics,        \* the TrafficMetrics returned for them so far
    \* ---- BaseHoneypot ----
    thisProtocol,   \* this.protocol
    trafficMap,     \* this.trafficData: Map<string, TrafficData>, in insertion order
    arrays,         \* the arrays allocated so far: arrays[id] is the content of array id
    events,         \* per logTraffic call: its snapshot and where its analysis stands
    nextSweep,      \* when the cleanup timer is due next
    lastSweep,      \* what the cleanupTrafficData call that led to this state saw (observation)
    \* ---- DnsHoneypot (the draft with TrafficLogModel) ----
    queries,        \* per DNS message received: where handleDnsQuery stands
    storedLogs,     \* number of TrafficLog documents of the source in the store
    \* ---- the alert key of raiseAlert, as a function of its argument ----
    alertPair,      \* two arguments of raiseAlert
    alertKeys,      \* the keys computed for them, once computed
    \* ---- AttackLogger (the contract) ----
    attacks,        \* mapping(string => AttackLog)
    attackIds,      \* string[]
    blockTimestamp, \* block.timestamp of the block being mined
    logged,         \* the AttackLogged events emitted so far
    lastTx,         \* what the call that led to this state did (observation)
    \* ---- RateLimiter ----
    limits,         \* Map<string, RateLimit>, in insertion order
    nextCleanup,    \* when the cleanup timer is due next
    limiterCalls,   \* the isRateLimited calls made so far, by bursts (observation)
    \* ---- HttpHoneypot ----
    blockedIPs,     \* Set<string>
    unblockTimers,  \* the pending setTimeout callbacks of handleRequest
    requests,       \* per handleRequest call: where it stands
    blockedFor,     \* per IP: the reasons for which it was blocked (observation)
    \* ---- ModelManager ----
    currentVersion, \* this.currentVersion
    versions,       \* Map<string, ModelVersion>, in insertion order
    trainings       \* per trainNewVersion call: where it stands and its values

alertVars == <<now, ticks, activeAlerts, listeners, lastRaise, lastCreated>>
ruleVars == <<trafficData, ruleOut>>
predictVars == <<model, savedModel, calls>>
analyzerVars == <<collection, metrics>>
honeypotVars == <<thisProtocol, trafficMap, arrays, events, nextSweep, lastSweep>>

dnsVars == <<queries, storedLogs>>

keyVars == <<alertPair, alertKeys>>
ledgerVars == <<attacks, attackIds, blockTimestamp, logged, lastTx>>
limiterVars == <<limits, nextCleanup, limiterCalls>>
httpVars == <<blockedIPs, unblockTimers, requests, blockedFor>>
managerVars == <<currentVersion, versions, trainings>>
laterVars == <<httpVars, managerVars>>
otherVars == <<keyVars, ledgerVars, limiterVars, laterVars>>

vars == <<alertVars, ruleVars, predictVars, analyzerVars, honeypotVars, dnsVars,
          otherVars>>

\* An optional array (paths?: string[]): `a?.some(f)` of an undefined array
\* is undefined, which is falsy.
Undefined == [defined |-> FALSE, items |-> <<>>]
Arr(items) == [defined |-> TRUE, items |-> items]
IsDefined(a) == a.defined

(***************************************************************************)
(* AlertService                                                            *)
(***************************************************************************)

ALERT_COOLDOWN == 60000

\* Bounds of the alert model.
MaxTicks == 3
MaxListeners == 2

TickSteps == {1, 59999, 60000}
SourceIps == {"10.0.0.1", "10.0.0.2"}
AlertProtocols == {"http"}
AlertAttackTypes == {"ddos"}
\* The listeners: one that logs, and one that calls raiseAlert again with the
\* alert it is handed.
Callbacks == {"console", "reraise"}
\* The status field of the argument: left out by the caller ("undefined"),
\* or one of the values of AttackAlert.status.
AlertStatuses == {"undefined", "resolved"}
AlertRandoms == {"k3x9", "p07q"}

Triple(a) == <<a.sourceIp, a.protocol, a.attackType>>
Triples == SourceIps \X AlertProtocols \X AlertAttackTypes

\* The argument of raiseAlert: Omit<AttackAlert, 'id' | 'timestamp'>.
AlertInputs ==
    [sourceIp : SourceIps, protocol : AlertProtocols, attackType : AlertAttackTypes,
     status : AlertStatuses]

\* { id, timestamp, status: 'active', ...alert }: the fields of the argument
\* are spread last and replace the ones written before them.
FullAlert(a, id, t) ==
    [id |-> id,
     timestamp |-> t,
     status |-> IF a.status = "undefined" THEN "active" ELSE a.status,
     sourceIp |-> a.sourceIp,
     protocol |-> a.protocol,
     attackType |-> a.attackType]

\* const alertKey = `${alert.sourceIp}-${alert.protocol}-${alert.attackType}`
AlertKey(a) == a.sourceIp \o "-" \o a.protocol \o "-" \o a.attackType

\* Map.prototype.get: the value stored under key k, or "undefined".
MapHas(m, k) == \E i \in 1..Len(m) : m[i].key = k
MapGet(m, k) ==
    IF MapHas(m, k)
    THEN m[CHOOSE i \in 1..Len(m) : m[i].key = k].value
    ELSE "undefined"

\* A Map.set that appends without looking for the key (mutant of MapSet).
MapSetAlwaysAppends(m, k, v) == Append(m, [key |-> k, value |-> v])

\* Map.prototype.set: replaces the value of an existing key in place, appends
\* a new key at the end.
MapSet(m, k, v) ==
    IF MapHas(m, k)
    THEN [i \in 1..Len(m) |-> IF m[i].key = k THEN [key |-> k, value |-> v] ELSE m[i]]
    ELSE Append(m, [key |-> k, value |-> v])

\* generateAlertId: `alert-${Date.now()}-${Math.random().toString(36).substr(2, 9)}`
generateAlertId(t, r) == "alert-" \o ToString(t) \o "-" \o r

\* A suppression test with <= for < (mutant of Suppressed).
SuppressedInclusive(m, a, t) ==
    /\ MapHas(m, AlertKey(a))
    /\ t - MapGet(m, AlertKey(a)).timestamp <= ALERT_COOLDOWN

\* The suppression test of raiseAlert.
Suppressed(m, a, t) ==
    LET existingAlert == MapGet(m, AlertKey(a))
    IN  /\ MapHas(m, AlertKey(a))
        /\ t - existingAlert.timestamp < ALERT_COOLDOWN

\* A cleanup that also deletes the alert whose age is the cooldown (mutant of
\* cleanupOldAlerts).
cleanupOldAlertsInclusive(m, t) ==
    LET keep(e) == ~(t - e.value.timestamp >= ALERT_COOLDOWN)
    IN  SelectSeq(m, keep)

\* cleanupOldAlerts at time t.
cleanupOldAlerts(m, t) ==
    LET keep(e) == ~(t - e.value.timestamp > ALERT_COOLDOWN)
    IN  SelectSeq(m, keep)

\* EventEmitter.emit: the listeners are called in order; a listener that
\* throws ends the emit with its exception. throwAt is the position of the
\* first listener that throws on this alert (0: none does).
Invoked(ls, throwAt) ==
    IF throwAt = 0 THEN ls ELSE SubSeq(ls, 1, throwAt)

\* A suppressed call that rewrites the raise time of the stored alert
\* (mutant of suppress).
suppressRefreshes(m, a, t) ==
    [i \in 1..Len(m) |->
        IF m[i].key = AlertKey(a)
        THEN [m[i] EXCEPT !.value.timestamp = t]
        ELSE m[i]]

\* The suppressed branch of raiseAlert: return, with the map as it was.
suppress(m, a, t) == m

\* Listeners that are called before the alert is stored (mutant of
\* SeenByListeners).
SeenBeforeStore(m, a, fullAlert) == m

\* The map at the time of the emit: the set comes before the emit.
SeenByListeners(m, a, fullAlert) == MapSet(m, AlertKey(a), fullAlert)

\* The raiseAlert calls that listeners make while they are notified of alert
\* a and that get past the suppression test: each "reraise" listener calls
\* raiseAlert(a) inside the emit, against the map as it is then.
Reentered(invoked, seen, a, t) ==
    Cardinality({ i \in 1..Len(invoked) :
                    invoked[i] = "reraise" /\ ~Suppressed(seen, a, t) })

NoRaise ==
    [outcome |-> "none", triple |-> <<>>, at |-> 0, prev |-> -1, id |-> "",
     invoked |-> <<>>, threw |-> FALSE, cleaned |-> FALSE, reentered |-> 0]

\* The state of the AlertService after its constructor.
AlertIdle ==
    /\ now = 0
    /\ ticks = 0
    /\ activeAlerts = <<>>
    /\ listeners = <<>>
    /\ lastRaise = NoRaise
    /\ lastCreated = [tr \in Triples |-> -1]

\* No snapshot is being classified.
RuleIdle ==
    /\ trafficData = Undefined
    /\ ruleOut = <<>>

\* No predictAttack call has been made and no network is loaded.
Null == [attackType |-> "null", confidence |-> [k |-> "fin", n |-> 0, d |-> 1],
         absorbsInfinity |-> FALSE]
PredictIdle ==
    /\ model = Null
    /\ savedModel = Null
    /\ calls = <<>>

\* No query has been made on the traffic logs.
AnalyzerIdle ==
    /\ collection = [protocol |-> "HTTP", paths |-> "same", runs |-> <<>>]
    /\ metrics = <<>>

\* trafficWindow: the window of the traffic analysis, and the period of the
\* cleanup timer.
trafficWindow == 60000

\* No cleanupTrafficData call led to this state.
NoSweep == [at |-> -1, before |-> <<>>]

\* The state of a honeypot after the BaseHoneypot constructor.
HoneypotIdle ==
    /\ thisProtocol = "http"
    /\ trafficMap = <<>>
    /\ arrays = <<>>
    /\ events = <<>>
    /\ nextSweep = trafficWindow
    /\ lastSweep = NoSweep

\* No DNS message has been received and the store is empty.
DnsIdle ==
    /\ queries = <<>>
    /\ storedLogs = 0

\* No key has been computed.
KeyIdle ==
    /\ alertPair = <<>>
    /\ alertKeys = <<>>

\* An AttackLog that was never written: every field has its zero value.
ZeroLog ==
    [attackId |-> "", reporter |-> "0x0", timestamp |-> 0, attackType |-> "",
     confidence |-> 0, sourceIp |-> "", protocol |-> "", requestCount |-> 0,
     indicators |-> <<>>]

\* The ids that callers of the contract use; "" is the empty string.
LedgerIds == {"", "a1", "a2"}

NoTx == [fn |-> "none", outcome |-> "", id |-> "", limit |-> 0, result |-> <<>>]

\* The contract after its deployment.
LedgerIdle ==
    /\ attacks = [id \in LedgerIds |-> ZeroLog]
    /\ attackIds = <<>>
    /\ blockTimestamp = 0
    /\ logged = <<>>
    /\ lastTx = NoTx

\* this.windowMs and this.maxRequests
windowMs == 60000
maxRequests == 1000

\* The RateLimiter after its constructor.
LimiterIdle ==
    /\ limits = <<>>
    /\ nextCleanup = 60000
    /\ limiterCalls = <<>>

\* The addresses that send HTTP requests.
HttpIps == {"10.0.0.1", "10.0.0.2"}

\* The HttpHoneypot after its constructor.
HttpIdle ==
    /\ blockedIPs = {}
    /\ unblockTimers = <<>>
    /\ requests = <<>>
    /\ blockedFor = [ip \in HttpIps |-> {}]

\* The ModelManager after its constructor, with an empty models directory.
ManagerIdle ==
    /\ currentVersion = "1.0.0"
    /\ versions = <<>>
    /\ trainings = <<>>

LaterIdle == HttpIdle /\ ManagerIdle

OtherIdle == KeyIdle /\ LedgerIdle /\ LimiterIdle /\ LaterIdle

InitAlert ==
    AlertIdle /\ RuleIdle /\ PredictIdle /\ AnalyzerIdle /\ HoneypotIdle /\ DnsIdle
    /\ OtherIdle

\* Time passes between calls.
Tick ==
    /\ ticks < MaxTicks
    /\ \E d \in TickSteps : now' = now + d
    /\ ticks' = ticks + 1
    /\ lastRaise' = NoRaise
    /\ UNCHANGED <<otherVars, activeAlerts, listeners, lastCreated, ruleVars, predictVars, analyzerVars, honeypotVars, dnsVars>>

\* subscribe(callback): eventEmitter.on('attack-alert', callback)
subscribe ==
    /\ Len(listeners) < MaxListeners
    /\ \E cb \in Callbacks : listeners' = Append(listeners, cb)
    /\ lastRaise' = NoRaise
    /\ UNCHANGED <<otherVars, now, ticks, activeAlerts, lastCreated, ruleVars, predictVars, analyzerVars, honeypotVars, dnsVars>>

\* unsubscribe(callback): eventEmitter.off removes the most recently added
\* instance of the callback.
unsubscribe ==
    /\ \E cb \in Callbacks :
        /\ \E i \in 1..Len(listeners) : listeners[i] = cb
        /\ LET last == CHOOSE i \in 1..Len(listeners) :
                          /\ listeners[i] = cb
                          /\ \A j \in (i+1)..Len(listeners) : listeners[j] # cb
           IN  listeners' = SubSeq(listeners, 1, last - 1)
                            \o SubSeq(listeners, last + 1, Len(listeners))
    /\ lastRaise' = NoRaise
    /\ UNCHANGED <<otherVars, now, ticks, activeAlerts, lastCreated, ruleVars, predictVars, analyzerVars, honeypotVars, dnsVars>>

\* raiseAlert(alert), the whole call: the suppression test, the store, the
\* emit and the cleanup, which a throwing listener skips.
raiseAlert ==
    \E a \in AlertInputs, r \in AlertRandoms, throwAt \in 0..Len(listeners) :
        LET obs == [NoRaise EXCEPT !.triple = Triple(a), !.at = now,
                                   !.prev = lastCreated[Triple(a)]]
        IN
        IF Suppressed(activeAlerts, a, now)
        THEN /\ lastRaise' = [obs EXCEPT !.outcome = "suppressed"]
             /\ activeAlerts' = suppress(activeAlerts, a, now)
             /\ UNCHANGED <<otherVars, now, ticks, listeners, lastCreated, ruleVars, predictVars, analyzerVars, honeypotVars, dnsVars>>
        ELSE LET fullAlert == FullAlert(a, generateAlertId(now, r), now)
                 stored == MapSet(activeAlerts, AlertKey(a), fullAlert)
                 seen == SeenByListeners(activeAlerts, a, fullAlert)
                 threw == throwAt # 0
             IN  /\ activeAlerts' = IF threw THEN stored
                                    ELSE cleanupOldAlerts(stored, now)
                 /\ lastCreated' = [lastCreated EXCEPT ![Triple(a)] = now]
                 /\ lastRaise' = [obs EXCEPT
                        !.outcome = IF threw THEN "failed" ELSE "published",
                        !.id = fullAlert.id,
                        !.invoked = Invoked(listeners, throwAt),
                        !.threw = threw,
                        !.cleaned = ~threw,
                        !.reentered = Reentered(Invoked(listeners, throwAt),
                                                seen, a, now)]
                 /\ UNCHANGED <<otherVars, now, ticks, listeners, ruleVars, predictVars, analyzerVars, honeypotVars, dnsVars>>

\* getActiveAlerts(): Array.from(this.activeAlerts.values())
getActiveAlerts == [i \in 1..Len(activeAlerts) |-> activeAlerts[i].value]

NextAlert == Tick \/ subscribe \/ unsubscribe \/ raiseAlert

(***************************************************************************)
(* JavaScript numbers: the rationals with Infinity and NaN.                *)
(***************************************************************************)

RECURSIVE Gcd(_, _)
Gcd(a, b) == IF b = 0 THEN a ELSE Gcd(b, a % b)

Abs(x) == IF x < 0 THEN -x ELSE x

\* The one element of a singleton set. An operator that uses an argument
\* several times takes it through a singleton ({F(x) : x \in {arg}}), which
\* evaluates it once.
The(S) == CHOOSE x \in S : TRUE

\* The finite number n/d (d # 0), in lowest terms with a positive denominator.
Fin(n0, d0) ==
    The({ LET g == Gcd(Abs(n), Abs(d))
              sgn == IF d < 0 THEN -1 ELSE 1
          IN  [k |-> "fin", n |-> sgn * (n \div g), d |-> sgn * (d \div g)] :
          n \in {n0}, d \in {d0} })

Num(n) == [k |-> "fin", n |-> n, d |-> 1]
Infinity == [k |-> "inf", n |-> 1, d |-> 0]
NaN == [k |-> "nan", n |-> 0, d |-> 0]

IsFinite(x) == x.k = "fin"

\* x / y for x >= 0 and y >= 0.
JsDiv(x0, y0) ==
    The({ CASE x.k = "nan" \/ y.k = "nan" -> NaN
            [] x.k = "inf" /\ y.k = "inf" -> NaN
            [] x.k = "inf" -> Infinity
            [] y.k = "inf" -> Num(0)
            [] y.n = 0 /\ x.n = 0 -> NaN
            [] y.n = 0 -> Infinity
            [] OTHER -> Fin(x.n * y.d, x.d * y.n) :
          x \in {x0}, y \in {y0} })

\* x + y and x - y, for y finite.
JsAdd(x0, y0) ==
    The({ CASE x.k = "nan" \/ y.k = "nan" -> NaN
            [] x.k = "inf" -> Infinity
            [] OTHER -> Fin(x.n * y.d + y.n * x.d, x.d * y.d) :
          x \in {x0}, y \in {y0} })

JsSub(x0, y0) ==
    The({ CASE x.k = "nan" \/ y.k = "nan" -> NaN
            [] x.k = "inf" -> Infinity
            [] OTHER -> Fin(x.n * y.d - y.n * x.d, x.d * y.d) :
          x \in {x0}, y \in {y0} })

\* x > y and x < y: false when either is NaN.
JsGt(x0, y0) ==
    \E x \in {x0}, y \in {y0} :
        CASE x.k = "nan" \/ y.k = "nan" -> FALSE
          [] x.k = "inf" -> y.k # "inf"
          [] y.k = "inf" -> FALSE
          [] OTHER -> x.n * y.d > y.n * x.d

JsLt(x, y) == JsGt(y, x)

\* Math.min and Math.max: NaN when either argument is.
MathMin(x0, y0) ==
    The({ CASE x.k = "nan" \/ y.k = "nan" -> NaN
            [] JsGt(x, y) -> y
            [] OTHER -> x :
          x \in {x0}, y \in {y0} })

MathMax(x0, y0) ==
    The({ CASE x.k = "nan" \/ y.k = "nan" -> NaN
            [] JsGt(y, x) -> y
            [] OTHER -> x :
          x \in {x0}, y \in {y0} })

(***************************************************************************)
(* AttackPredictor: the rule-based classifier (predictor.ts)               *)
(***************************************************************************)

\* Strings that are searched are sequences of characters.
Chars(n, c) == [i \in 1..n |-> c]
S_admin == <<"a", "d", "m", "i", "n">>
S_login == <<"l", "o", "g", "i", "n">>
S_wp == <<"w", "p", "-">>
S_php == <<".", "p", "h", "p">>

\* String.prototype.includes
Includes(p, needle) ==
    \E i \in 0..(Len(p) - Len(needle)) :
        SubSeq(p, i + 1, i + Len(needle)) = needle


\* const rps = requestCount / (timeWindow / 1000)
Rps(td) == JsDiv(Num(td.requestCount), JsDiv(Num(td.timeWindow), Num(1000)))

\* calculatePatternScore
burstThreshold == 10
sustainedThreshold == 5

calculatePatternScore(td) ==
    The({ LET burstScore ==
                  IF JsGt(rps, Num(burstThreshold))
                  THEN JsDiv(JsSub(rps, Num(burstThreshold)), Num(burstThreshold))
                  ELSE Num(0)
              sustainedScore ==
                  IF JsGt(rps, Num(sustainedThreshold))
                  THEN JsDiv(JsSub(rps, Num(sustainedThreshold)),
                             Num(burstThreshold - sustainedThreshold))
                  ELSE Num(0)
          IN  MathMax(burstScore, sustainedScore) :
          rps \in {Rps(td)} })

\* The indicators that detectAttackPattern collects for the protocol.
PatternIndicators(td) ==
    CASE td.protocol = "http" ->
            (IF IsDefined(td.paths)
                /\ \E i \in 1..Len(td.paths.items) :
                      \/ Includes(td.paths.items[i], S_admin)
                      \/ Includes(td.paths.items[i], S_wp)
                      \/ Includes(td.paths.items[i], S_php)
             THEN <<"Targeting sensitive endpoints">> ELSE <<>>)
            \o
            (IF IsDefined(td.paths)
                /\ \A i \in 1..Len(td.paths.items) : td.paths.items[i] = td.paths.items[1]
             THEN <<"Single endpoint targeting">> ELSE <<>>)
      [] td.protocol = "dns" ->
            (IF IsDefined(td.queryTypes)
                /\ \E i \in 1..Len(td.queryTypes.items) : td.queryTypes.items[i] = "ANY"
             THEN <<"DNS amplification attempt">> ELSE <<>>)
            \o
            (IF IsDefined(td.queryTypes)
                /\ \A i \in 1..Len(td.queryTypes.items) : td.queryTypes.items[i] = td.queryTypes.items[1]
             THEN <<"Single query type pattern">> ELSE <<>>)
      [] td.protocol = "smtp" ->
            IF JsGt(Rps(td), Num(2)) THEN <<"High email send rate">> ELSE <<>>
      [] OTHER -> <<>>

\* detectAttackPattern
detectAttackPattern(td) ==
    The({ [pattern |->
              CASE JsGt(patternScore, Fin(8, 10)) -> "ddos"
                [] Len(indicators) > 0 -> "targeted"
                [] JsGt(patternScore, Fin(4, 10)) -> "suspicious"
                [] OTHER -> "normal",
           confidence |->
              MathMin(CASE JsGt(patternScore, Fin(8, 10)) -> patternScore
                        [] Len(indicators) > 0 ->
                              JsAdd(Fin(6, 10), Fin(Len(indicators), 10))
                        [] JsGt(patternScore, Fin(4, 10)) -> patternScore
                        [] OTHER -> Num(0),
                      Num(1)),
           indicators |-> indicators] :
          patternScore \in {calculatePatternScore(td)},
          indicators \in {PatternIndicators(td)} })

\* uniqueIps is an array here (base.ts converts the Set before the call):
\* uniqueIpsCount = trafficData.uniqueIps.length
UniqueIpsCount(td) == Len(td.uniqueIps)

\* const ipRatio = requestCount > 0 ? uniqueIpsCount / requestCount : 1
IpRatio(td) ==
    IF td.requestCount > 0
    THEN JsDiv(Num(UniqueIpsCount(td)), Num(td.requestCount))
    ELSE Num(1)

\* The protocol's row of the thresholds table (http's for any other protocol).
Thresholds(protocol) ==
    CASE protocol = "http" -> [normal |-> 5, suspicious |-> 10, attack |-> 20]
      [] protocol = "dns" -> [normal |-> 3, suspicious |-> 8, attack |-> 15]
      [] protocol = "smtp" -> [normal |-> 2, suspicious |-> 5, attack |-> 10]
      [] OTHER -> [normal |-> 5, suspicious |-> 10, attack |-> 20]

\* "Initialize classification": the running attackType, confidence and the
\* optional details after detectAttackPattern (a flag that is not set reads
\* FALSE, a string that is not set "undefined").
InitClassification(td) ==
    The({ [attackType |-> patternAnalysis.pattern,
           confidence |-> patternAnalysis.confidence,
           ipDiversity |-> "undefined",
           reason |-> "undefined",
           sensitiveEndpoints |-> FALSE,
           dnsAmplification |-> FALSE,
           spamPattern |-> FALSE] :
          patternAnalysis \in {detectAttackPattern(td)} })

\* "Adjust based on IP ratio"
AdjustIpRatio(td, c0) ==
    The({ IF JsLt(IpRatio(td), Fin(1, 10)) /\ td.requestCount > 10
          THEN [c EXCEPT !.ipDiversity = "low",
                         !.confidence = MathMin(JsAdd(c.confidence, Fin(2, 10)), Num(1)),
                         !.reason = "Low IP diversity"]
          ELSE c :
          c \in {c0} })

\* "Classify based on RPS"
\* ClassifyRps with the suspicious threshold as the divisor of both branches.
ClassifyRpsOverSuspicious(td, c0) ==
    The({ CASE JsGt(rps, Num(threshold.attack)) ->
                  [c EXCEPT !.attackType = "ddos",
                            !.confidence =
                                MathMin(JsDiv(JsSub(rps, Num(threshold.attack)),
                                              Num(threshold.suspicious)), Num(1)),
                            !.reason = "High request rate"]
            [] JsGt(rps, Num(threshold.suspicious)) ->
                  [c EXCEPT !.attackType = "suspicious",
                            !.confidence =
                                JsDiv(JsSub(rps, Num(threshold.suspicious)),
                                      Num(threshold.suspicious)),
                            !.reason = "Elevated request rate"]
            [] OTHER -> c :
          c \in {c0}, rps \in {Rps(td)}, threshold \in {Thresholds(td.protocol)} })

ClassifyRps(td, c0) ==
    The({ CASE JsGt(rps, Num(threshold.attack)) ->
                  [c EXCEPT !.attackType = "ddos",
                            !.confidence =
                                MathMin(JsDiv(JsSub(rps, Num(threshold.attack)),
                                              Num(threshold.attack)), Num(1)),
                            !.reason = "High request rate"]
            [] JsGt(rps, Num(threshold.suspicious)) ->
                  [c EXCEPT !.attackType = "suspicious",
                            !.confidence =
                                JsDiv(JsSub(rps, Num(threshold.suspicious)),
                                      Num(threshold.attack - threshold.suspicious)),
                            !.reason = "Elevated request rate"]
            [] OTHER -> c :
          c \in {c0}, rps \in {Rps(td)}, threshold \in {Thresholds(td.protocol)} })

\* "Protocol-specific checks"
\* ProtocolChecks whose DNS branch takes the smaller of the two confidences.
ProtocolChecksDnsMin(td, c0) ==
    The({ CASE /\ td.protocol = "http"
               /\ IsDefined(td.paths)
               /\ \E i \in 1..Len(td.paths.items) :
                     \/ Includes(td.paths.items[i], S_admin)
                     \/ Includes(td.paths.items[i], S_login) ->
                  [c EXCEPT !.sensitiveEndpoints = TRUE,
                            !.confidence = MathMin(JsAdd(c.confidence, Fin(1, 10)), Num(1))]
            [] /\ td.protocol = "dns"
               /\ IsDefined(td.queryTypes)
               /\ \E i \in 1..Len(td.queryTypes.items) : td.queryTypes.items[i] = "ANY" ->
                  [c EXCEPT !.dnsAmplification = TRUE,
                            !.attackType = "dns_amplification",
                            !.confidence = MathMin(c.confidence, Fin(8, 10))]
            [] /\ td.protocol = "smtp"
               /\ JsGt(rps, Num(threshold.suspicious))
               /\ JsLt(IpRatio(td), Fin(2, 10)) ->
                  [c EXCEPT !.spamPattern = TRUE,
                            !.attackType = "spam",
                            !.confidence = MathMax(c.confidence, Fin(7, 10))]
            [] OTHER -> c :
          c \in {c0}, rps \in {Rps(td)}, threshold \in {Thresholds(td.protocol)} })

ProtocolChecks(td, c0) ==
    The({ CASE /\ td.protocol = "http"
               /\ IsDefined(td.paths)
               /\ \E i \in 1..Len(td.paths.items) :
                     \/ Includes(td.paths.items[i], S_admin)
                     \/ Includes(td.paths.items[i], S_login) ->
                  [c EXCEPT !.sensitiveEndpoints = TRUE,
                            !.confidence = MathMin(JsAdd(c.confidence, Fin(1, 10)), Num(1))]
            [] /\ td.protocol = "dns"
               /\ IsDefined(td.queryTypes)
               /\ \E i \in 1..Len(td.queryTypes.items) : td.queryTypes.items[i] = "ANY" ->
                  [c EXCEPT !.dnsAmplification = TRUE,
                            !.attackType = "dns_amplification",
                            !.confidence = MathMax(c.confidence, Fin(8, 10))]
            [] /\ td.protocol = "smtp"
               /\ JsGt(rps, Num(threshold.suspicious))
               /\ JsLt(IpRatio(td), Fin(2, 10)) ->
                  [c EXCEPT !.spamPattern = TRUE,
                            !.attackType = "spam",
                            !.confidence = MathMax(c.confidence, Fin(7, 10))]
            [] OTHER -> c :
          c \in {c0}, rps \in {Rps(td)}, threshold \in {Thresholds(td.protocol)} })

\* simpleRuleBasedClassification(trafficData), returned at time t.
simpleRuleBasedClassification(td, t) ==
    The({ [attackType |-> c.attackType,
           confidence |-> c.confidence,
           timestamp |-> t,
           details |->
              [rps |-> Rps(td),
               ipRatio |-> IpRatio(td),
               uniqueIpCount |-> UniqueIpsCount(td),
               totalRequests |-> td.requestCount,
               indicators |-> PatternIndicators(td),
               patternScore |-> calculatePatternScore(td),
               ipDiversity |-> c.ipDiversity,
               reason |-> c.reason,
               sensitiveEndpoints |-> c.sensitiveEndpoints,
               dnsAmplification |-> c.dnsAmplification,
               spamPattern |-> c.spamPattern]] :
          c \in {ProtocolChecks(td,
                     ClassifyRps(td, AdjustIpRatio(td, InitClassification(td))))} })

\* ---- the snapshots the rule classifier is run on ----

P_root == <<"/">>
P_admin == <<"/">> \o S_admin
P_login == <<"/", "u", "/">> \o S_login
P_php == <<"/", "x">> \o S_php

RuleProtocols == {"http", "dns", "smtp"}
RuleRequestCounts == {0, 1, 6, 9, 10, 11, 15, 16, 21, 41, 301, 601, 1201, 2401}
RuleTimeWindows == {0, 1000, 60000}
RuleUniqueIpCounts == {1, 3, 50}
RulePaths ==
    {Undefined, Arr(<<P_root>>), Arr(<<P_admin, P_root>>), Arr(<<P_root, P_login>>),
     Arr(<<P_php>>)}
RuleQueryTypes ==
    {Undefined, Arr(<<"A">>), Arr(<<"ANY">>), Arr(<<"A", "ANY">>), Arr(<<"A", "MX">>)}

Ips(n) == [i \in 1..n |-> "10.0.0." \o ToString(i)]

RuleInputs ==
    { [protocol |-> pr, requestCount |-> rc, timeWindow |-> tw,
       uniqueIps |-> Ips(u), paths |-> pa, queryTypes |-> qt,
       sourceIp |-> "10.0.0.1", timestamp |-> 0] :
        pr \in RuleProtocols, rc \in RuleRequestCounts, tw \in RuleTimeWindows,
        u \in RuleUniqueIpCounts, pa \in RulePaths, qt \in RuleQueryTypes }

InitRule ==
    /\ OtherIdle
    /\ AlertIdle
    /\ DnsIdle
    /\ HoneypotIdle
    /\ PredictIdle
    /\ AnalyzerIdle
    /\ trafficData \in RuleInputs
    /\ ruleOut = <<>>

\* One call of simpleRuleBasedClassification on the snapshot.
Classify ==
    /\ ruleOut = <<>>
    /\ ruleOut' = <<simpleRuleBasedClassification(trafficData, 0)>>
    /\ UNCHANGED <<otherVars, trafficData, alertVars, predictVars, analyzerVars, honeypotVars, dnsVars>>

NextRule == Classify

(***************************************************************************)
(* DDoSModel (models/ddosModel.ts) and AttackPredictor.predictAttack       *)
(***************************************************************************)

\* Bounds of the predictor model.
MaxCalls == 2
MaxClock == 1

\* A network stands for its weights, and is known here by what it answers
\* on the snapshot under classification: the class of the largest softmax
\* output and that output (at least 1/4 for four classes), and whether an
\* infinite input feature is absorbed (all its first-layer weights are
\* negative, so relu maps it to 0) or spreads to NaN outputs.
Networks ==
    { [attackType |-> "normal", confidence |-> Fin(9, 10), absorbsInfinity |-> FALSE],
      [attackType |-> "ddos", confidence |-> Fin(1, 2), absorbsInfinity |-> FALSE],
      [attackType |-> "suspicious", confidence |-> Fin(1, 4), absorbsInfinity |-> TRUE] }

\* preprocessTrafficData: the feature vector.
preprocessTrafficData(td) ==
    [rps |-> Rps(td),
     ipRatio |-> IpRatio(td),
     uniqueIpsCount |-> UniqueIpsCount(td),
     requestCount |-> td.requestCount,
     isHTTP |-> IF td.protocol = "http" THEN 1 ELSE 0,
     isDNS |-> IF td.protocol = "dns" THEN 1 ELSE 0,
     isSMTP |-> IF td.protocol = "smtp" THEN 1 ELSE 0,
     hasSensitivePaths |->
        IF IsDefined(td.paths)
           /\ \E i \in 1..Len(td.paths.items) :
                 \/ Includes(td.paths.items[i], S_admin)
                 \/ Includes(td.paths.items[i], S_wp)
        THEN 1 ELSE 0]

\* The probabilities are NaN when a NaN feature, or an infinite one that the
\* network does not absorb, reaches the softmax.
OutputIsNaN(net, features) ==
    \/ features.rps.k = "nan"
    \/ features.rps.k = "inf" /\ ~net.absorbsInfinity

\* DDoSModel.predict from the tensor on: maxIndex, confidence and the
\* returned classification. With NaN probabilities Math.max is NaN, indexOf
\* gives -1 and both attackTypes[-1] and probabilities[0][-1] are undefined
\* (an undefined confidence acts as NaN in the caller's arithmetic and
\* comparisons).
mlPredict(net, td, t) ==
    The({ IF OutputIsNaN(net, features)
          THEN [attackType |-> "undefined", confidence |-> NaN, timestamp |-> t,
                combinedPrediction |-> FALSE, indicators |-> <<>>]
          ELSE [attackType |-> net.attackType, confidence |-> net.confidence,
                timestamp |-> t, combinedPrediction |-> FALSE, indicators |-> <<>>] :
          features \in {preprocessTrafficData(td)} })

\* predictAttack after `await this.mlModel.predict(trafficData)`: the
\* combination of the two predictions.
CombinePredictions(ml0, rule0) ==
    The({ IF JsGt(mlPrediction.confidence, Fin(8, 10))
          THEN mlPrediction
          ELSE [mlPrediction EXCEPT
                  !.confidence = JsDiv(JsAdd(mlPrediction.confidence,
                                             rulePrediction.confidence), Num(2)),
                  !.combinedPrediction = TRUE,
                  !.indicators = rulePrediction.details.indicators] :
          mlPrediction \in {ml0}, rulePrediction \in {rule0} })

\* The catch branch of predictAttack: the rule-based classification alone.
Fallback(td, t) ==
    The({ [attackType |-> r.attackType, confidence |-> r.confidence, timestamp |-> t,
           combinedPrediction |-> FALSE, indicators |-> r.details.indicators] :
          r \in {simpleRuleBasedClassification(td, t)} })

PredictProtocols == {"http", "dns", "smtp"}
PredictRequestCounts == {0, 21, 1201}
PredictTimeWindows == {0, 1000}
PredictPaths == {Undefined, Arr(<<P_admin>>)}
PredictQueryTypes == {Undefined, Arr(<<"ANY">>)}

PredictInputs ==
    { [protocol |-> pr, requestCount |-> rc, timeWindow |-> tw,
       uniqueIps |-> Ips(1), paths |-> pa, queryTypes |-> qt,
       sourceIp |-> "10.0.0.1", timestamp |-> 0] :
        pr \in PredictProtocols, rc \in PredictRequestCounts,
        tw \in PredictTimeWindows, pa \in PredictPaths, qt \in PredictQueryTypes }

NoPrediction ==
    [attackType |-> "", confidence |-> NaN, timestamp |-> 0,
     combinedPrediction |-> FALSE, indicators |-> <<>>]

\* Every call of the run classifies the same snapshot. The store holds a
\* saved network or none.
InitPredict ==
    /\ OtherIdle
    /\ AlertIdle
    /\ DnsIdle
    /\ HoneypotIdle
    /\ AnalyzerIdle
    /\ trafficData \in PredictInputs
    /\ ruleOut = <<>>
    /\ model = Null
    /\ savedModel \in {Null} \cup {n \in Networks : n.attackType = "normal"}
    /\ calls = <<>>

\* Time passes.
PassTime ==
    /\ now < MaxClock
    /\ now' = now + 1
    /\ UNCHANGED <<otherVars, ticks, activeAlerts, listeners, lastRaise, lastCreated,
                   ruleVars, predictVars, analyzerVars, honeypotVars, dnsVars>>

\* The inference on the current network: tf either answers or throws, and
\* an exception is caught by predictAttack, which returns the rule-based
\* classification.
Inferred(c, tfThrows) ==
    IF tfThrows
    THEN [c EXCEPT !.pc = "done", !.fellBack = TRUE,
                   !.out = Fallback(trafficData, now)]
    ELSE [c EXCEPT !.pc = "array", !.net = model]

\* predictAttack(trafficData) up to its first await: DDoSModel.predict finds
\* no network and awaits initModel, or runs the inference and awaits
\* prediction.array().
predictAttack ==
    /\ Len(calls) < MaxCalls
    /\ \E tfThrows \in BOOLEAN :
        LET c == [pc |-> "init", net |-> Null, fellBack |-> FALSE, out |-> NoPrediction]
        IN  calls' = Append(calls, IF model = Null THEN c ELSE Inferred(c, tfThrows))
    /\ UNCHANGED <<otherVars, trafficData, ruleOut, model, savedModel, alertVars, analyzerVars, honeypotVars, dnsVars>>

\* initModel resumes: DDoSModel.loadModel assigns the saved network, or
\* modelManager.loadModel has thrown and createModel makes a network with
\* random initial weights.
initModel ==
    \E i \in 1..Len(calls) :
        /\ calls[i].pc = "init"
        /\ IF savedModel # Null
           THEN model' = savedModel
           ELSE \E n \in Networks : model' = n
        /\ calls' = [calls EXCEPT ![i].pc = "ready"]
        /\ UNCHANGED <<otherVars, trafficData, ruleOut, savedModel, alertVars, analyzerVars, honeypotVars, dnsVars>>

\* DDoSModel.predict resumes after initModel and runs the inference on
\* this.model as it is now.
predict ==
    \E i \in 1..Len(calls), tfThrows \in BOOLEAN :
        /\ calls[i].pc = "ready"
        /\ calls' = [calls EXCEPT ![i] = Inferred(calls[i], tfThrows)]
        /\ UNCHANGED <<otherVars, trafficData, ruleOut, model, savedModel, alertVars, analyzerVars, honeypotVars, dnsVars>>

\* prediction.array() resolves: DDoSModel.predict returns and predictAttack
\* combines its result with the rule-based classification.
combine ==
    \E i \in 1..Len(calls) :
        /\ calls[i].pc = "array"
        /\ calls' = [calls EXCEPT
                ![i].pc = "done",
                ![i].out = CombinePredictions(
                              mlPredict(calls[i].net, trafficData, now),
                              simpleRuleBasedClassification(trafficData, now))]
        /\ UNCHANGED <<otherVars, trafficData, ruleOut, model, savedModel, alertVars, analyzerVars, honeypotVars, dnsVars>>

NextPredict == PassTime \/ predictAttack \/ initModel \/ predict \/ combine

SpecPredict == InitPredict /\ [][NextPredict]_vars

(***************************************************************************)
(* TrafficAnalyzer: calculateMetrics on the logs of a window.              *)
(***************************************************************************)

\* Bound of the analyzer model: the number of runs of a window. A run is a
\* number of consecutive logs that each arrive the same delay after the log
\* before them.
MaxRuns == 3

RunCounts == {1, 6, 7, 101}
RunDelays == {10, 99, 100, 500}
AnalyzerProtocols == {"HTTP", "DNS"}
\* Every log requests the same path, or every log its own.
PathPolicies == {"same", "distinct"}

Runs == [count : RunCounts, delay : RunDelays]

AnalyzerInputs ==
    { [protocol |-> pr, paths |-> pp, runs |-> rs] :
        pr \in AnalyzerProtocols, pp \in PathPolicies,
        rs \in UNION { [1..n -> Runs] : n \in 0..MaxRuns } }

RECURSIVE Total(_)
Total(runs) == IF runs = <<>> THEN 0 ELSE Head(runs).count + Total(Tail(runs))

\* The arrival time of the k-th log of the runs.
RECURSIVE Arrival(_, _)
Arrival(runs, k) ==
    CASE k = 0 \/ runs = <<>> -> 0
      [] k <= Head(runs).count -> k * Head(runs).delay
      [] OTHER -> Head(runs).count * Head(runs).delay
                    + Arrival(Tail(runs), k - Head(runs).count)

\* TrafficLogModel.find({protocol, timestamp >= startTime}).sort({timestamp: 1}):
\* the logs of the window, oldest first.
Logs(c) ==
    [k \in 1..Total(c.runs) |->
        [timestamp |-> Arrival(c.runs, k),
         sourceIp |-> "10.0.0.1",
         protocol |-> c.protocol,
         path |-> IF c.paths = "same" THEN "/" ELSE "/p" \o ToString(k)]]

\* currentBurstStart = null
NoStart == -1

\* The variables of calculateMetrics before its loop.
LoopStart ==
    [intervals |-> <<>>, paths |-> <<>>, burstCount |-> 0, consecutiveBursts |-> 0,
     maxConsecutiveBursts |-> 0, currentBurstStart |-> NoStart, burstPeriods |-> <<>>]

\* paths.add(path) on a Set in insertion order.
SetAdd(set, path) ==
    IF \E k \in 1..Len(set) : set[k] = path THEN set ELSE Append(set, path)

\* BurstStep recording a streak of 5 intervals too.
BurstStepFromFive(logs, i, st) ==
    LET interval == logs[i].timestamp - logs[i - 1].timestamp
        paths == IF logs[i].path # "" THEN SetAdd(st.paths, logs[i].path) ELSE st.paths
    IN  IF interval < 100
        THEN [st EXCEPT
                !.intervals = Append(@, interval),
                !.paths = paths,
                !.burstCount = @ + 1,
                !.consecutiveBursts = @ + 1,
                !.currentBurstStart = IF @ = NoStart THEN logs[i - 1].timestamp ELSE @,
                !.maxConsecutiveBursts =
                    IF st.consecutiveBursts + 1 > @ THEN st.consecutiveBursts + 1 ELSE @]
        ELSE [st EXCEPT
                !.intervals = Append(@, interval),
                !.paths = paths,
                !.burstPeriods =
                    IF st.currentBurstStart # NoStart /\ st.consecutiveBursts >= 5
                    THEN Append(@, [start |-> st.currentBurstStart,
                                    end |-> logs[i - 1].timestamp,
                                    count |-> st.consecutiveBursts,
                                    duration |-> logs[i - 1].timestamp
                                                   - st.currentBurstStart])
                    ELSE @,
                !.consecutiveBursts = 0,
                !.currentBurstStart = NoStart]

\* BurstStep ending a period at the event after the gap.
BurstStepEndsAtGap(logs, i, st) ==
    LET interval == logs[i].timestamp - logs[i - 1].timestamp
        paths == IF logs[i].path # "" THEN SetAdd(st.paths, logs[i].path) ELSE st.paths
    IN  IF interval < 100
        THEN [st EXCEPT
                !.intervals = Append(@, interval),
                !.paths = paths,
                !.burstCount = @ + 1,
                !.consecutiveBursts = @ + 1,
                !.currentBurstStart = IF @ = NoStart THEN logs[i - 1].timestamp ELSE @,
                !.maxConsecutiveBursts =
                    IF st.consecutiveBursts + 1 > @ THEN st.consecutiveBursts + 1 ELSE @]
        ELSE [st EXCEPT
                !.intervals = Append(@, interval),
                !.paths = paths,
                !.burstPeriods =
                    IF st.currentBurstStart # NoStart /\ st.consecutiveBursts > 5
                    THEN Append(@, [start |-> st.currentBurstStart,
                                    end |-> logs[i].timestamp,
                                    count |-> st.consecutiveBursts,
                                    duration |-> logs[i].timestamp
                                                   - st.currentBurstStart])
                    ELSE @,
                !.consecutiveBursts = 0,
                !.currentBurstStart = NoStart]

\* One iteration of the loop, for logs[i] and the log before it.
BurstStep(logs, i, st) ==
    LET interval == logs[i].timestamp - logs[i - 1].timestamp
        paths == IF logs[i].path # "" THEN SetAdd(st.paths, logs[i].path) ELSE st.paths
    IN  IF interval < 100
        THEN [st EXCEPT
                !.intervals = Append(@, interval),
                !.paths = paths,
                !.burstCount = @ + 1,
                !.consecutiveBursts = @ + 1,
                !.currentBurstStart = IF @ = NoStart THEN logs[i - 1].timestamp ELSE @,
                !.maxConsecutiveBursts =
                    IF st.consecutiveBursts + 1 > @ THEN st.consecutiveBursts + 1 ELSE @]
        ELSE [st EXCEPT
                !.intervals = Append(@, interval),
                !.paths = paths,
                !.burstPeriods =
                    IF st.currentBurstStart # NoStart /\ st.consecutiveBursts > 5
                    THEN Append(@, [start |-> st.currentBurstStart,
                                    end |-> logs[i - 1].timestamp,
                                    count |-> st.consecutiveBursts,
                                    duration |-> logs[i - 1].timestamp
                                                   - st.currentBurstStart])
                    ELSE @,
                !.consecutiveBursts = 0,
                !.currentBurstStart = NoStart]

\* for (let i = 1; i < logs.length; i++): the iterations for the indices
\* lo..hi in order (indices here start at 1, so the loop is 2..Len(logs)).
\* The range is split in halves to keep the evaluation shallow.
RECURSIVE BurstLoop(_, _, _, _)
BurstLoop(logs0, lo0, hi0, st0) ==
    The({ CASE lo > hi -> st
            [] lo = hi -> BurstStep(logs, lo, st)
            [] OTHER -> BurstLoop(logs, (lo + hi) \div 2 + 1, hi,
                                  BurstLoop(logs, lo, (lo + hi) \div 2, st)) :
          logs \in {logs0}, lo \in {lo0}, hi \in {hi0}, st \in {st0} })

\* intervals.reduce((a, b) => a + b, 0) over the indices lo..hi, from a = a0.
RECURSIVE Reduce(_, _, _, _)
Reduce(intervals0, lo0, hi0, a0) ==
    The({ CASE lo > hi -> a
            [] lo = hi -> a + intervals[lo]
            [] OTHER -> Reduce(intervals, (lo + hi) \div 2 + 1, hi,
                               Reduce(intervals, lo, (lo + hi) \div 2, a)) :
          intervals \in {intervals0}, lo \in {lo0}, hi \in {hi0}, a \in {a0} })

\* The suspicious score and the attack indicators, from the volume, the
\* timing, the bursts and the paths: avgInterval is total / n, or 0 for n = 0.
Indicators(logs, st, total, n) ==
    LET avgBelow(x) == IF n > 0 THEN total < x * n ELSE 0 < x
        volume ==
            CASE Len(logs) > 100 -> <<30, "High request volume">>
              [] Len(logs) > 50 -> <<20, "Moderate request volume">>
              [] OTHER -> <<0, "">>
        timing ==
            CASE avgBelow(50) -> <<30, "Extremely rapid requests">>
              [] avgBelow(100) -> <<20, "Very fast requests">>
              [] OTHER -> <<0, "">>
        bursts ==
            CASE st.burstCount > 20 ->
                    <<40, "High burst count: " \o ToString(st.burstCount)
                            \o " bursts detected">>
              [] st.burstCount > 10 ->
                    <<20, "Moderate burst activity: " \o ToString(st.burstCount)
                            \o " bursts detected">>
              [] OTHER -> <<0, "">>
        pattern ==
            IF Len(logs) > 10 /\ 10 * Len(st.paths) < Len(logs)
            THEN <<10, "Repetitive request patterns">>
            ELSE <<0, "">>
        all == <<volume, timing, bursts, pattern>>
    IN  [suspiciousScore |-> volume[1] + timing[1] + bursts[1] + pattern[1],
         attackIndicators |->
            [k \in 1..Len(SelectSeq(all, LAMBDA e : e[1] > 0)) |->
                SelectSeq(all, LAMBDA e : e[1] > 0)[k][2]]]

\* The attack type of a score of at least 70.
AttackTypeOf(logs, st) ==
    CASE logs[1].protocol = "DNS" -> "DNS Amplification Attack"
      [] st.maxConsecutiveBursts > 20 -> "HTTP Flood Attack"
      [] Len(st.paths) = 1 -> "Targeted Resource Attack"
      [] OTHER -> "Distributed HTTP Flood"

\* The TrafficMetrics that calculateMetrics returns after its loop.
MetricsOf(logs, st, total, n, ind) ==
    [requestCount |-> Len(logs),
     \* Math.round(avgInterval)
     averageRequestInterval |-> IF n > 0 THEN (2 * total + n) \div (2 * n) ELSE 0,
     burstCount |-> st.burstCount,
     uniquePaths |-> st.paths,
     suspiciousScore |-> ind.suspiciousScore,
     recentRequests |->
        LET from == IF Len(logs) > 5 THEN Len(logs) - 4 ELSE 1
        IN  [k \in 1..(Len(logs) - from + 1) |->
                [timestamp |-> logs[from + k - 1].timestamp,
                 sourceIp |-> logs[from + k - 1].sourceIp,
                 protocol |-> logs[from + k - 1].protocol,
                 path |-> IF logs[from + k - 1].path # ""
                          THEN logs[from + k - 1].path ELSE "N/A"]],
     attackAnalysis |->
        [isAttack |-> ind.suspiciousScore >= 70,
         type |-> IF ind.suspiciousScore >= 70 THEN AttackTypeOf(logs, st) ELSE "none",
         confidence |-> IF ind.suspiciousScore >= 70
                        THEN Fin(ind.suspiciousScore, 100) ELSE Num(0),
         details |-> ind.attackIndicators,
         burstPeriods |-> st.burstPeriods]]

\* calculateMetrics without its early return for an empty list of logs.
calculateMetricsWithoutGuard(logs0) ==
    The({ The({ The({ The({ MetricsOf(logs, st, total, Len(st.intervals), ind) :
                            ind \in {Indicators(logs, st, total, Len(st.intervals))} }) :
                      total \in {Reduce(st.intervals, 1, Len(st.intervals), 0)} }) :
                st \in {BurstLoop(logs, 2, Len(logs), LoopStart)} }) :
          logs \in {logs0} })

calculateMetrics(logs0) ==
    The({ IF Len(logs) = 0
          THEN [requestCount |-> 0,
                averageRequestInterval |-> 0,
                burstCount |-> 0,
                uniquePaths |-> <<>>,
                suspiciousScore |-> 0,
                recentRequests |-> <<>>,
                attackAnalysis |->
                   [isAttack |-> FALSE, type |-> "none", confidence |-> Num(0),
                    details |-> <<>>, burstPeriods |-> <<>>]]
          ELSE The({ The({ The({ MetricsOf(logs, st, total, Len(st.intervals), ind) :
                                 ind \in {Indicators(logs, st, total,
                                                     Len(st.intervals))} }) :
                           total \in {Reduce(st.intervals, 1, Len(st.intervals), 0)} }) :
                     st \in {BurstLoop(logs, 2, Len(logs), LoopStart)} }) :
          logs \in {logs0} })

InitAnalyzer ==
    /\ OtherIdle
    /\ AlertIdle
    /\ DnsIdle
    /\ HoneypotIdle
    /\ RuleIdle
    /\ PredictIdle
    /\ collection \in AnalyzerInputs
    /\ metrics = <<>>

\* getMetricsForTimeWindow(protocol, timeWindowMs): the query and
\* calculateMetrics on its result.
getMetricsForTimeWindow ==
    /\ metrics = <<>>
    /\ metrics' = <<calculateMetrics(Logs(collection))>>
    /\ UNCHANGED <<otherVars, collection, alertVars, ruleVars, predictVars, honeypotVars, dnsVars>>

NextAnalyzer == getMetricsForTimeWindow

SpecAnalyzer == InitAnalyzer /\ [][NextAnalyzer]_vars

(***************************************************************************)
(* BaseHoneypot: logTraffic, analyzeTraffic and the cleanup timer.         *)
(***************************************************************************)

\* Bounds of the honeypot model.
MaxEvents == 2
MaxAdvances == 2

AdvanceSteps == {60000, 60001}
HoneypotProtocols == {"http", "dns"}
HoneypotIps == {"10.0.0.1", "10.0.0.2"}
\* classification.attackType of a classification above the threshold.
HoneypotAttackTypes == {"ddos", "suspicious"}
\* uuidv4() of the i-th call: a new id each time.
uuidv4(i) == "uuid-" \o ToString(i)
\* requestData: {}, {paths: [...]} or {queryTypes: [...]}
RequestDatas ==
    { [paths |-> Undefined, queryTypes |-> Undefined],
      [paths |-> Arr(<<"/admin">>), queryTypes |-> Undefined],
      [paths |-> Arr(<<"/login">>), queryTypes |-> Undefined],
      [paths |-> Undefined, queryTypes |-> Arr(<<"ANY">>)] }

\* Array id 0 stands for undefined.
Deref(heap, id) == IF id = 0 THEN Undefined ELSE Arr(heap[id])

\* [...new Set([...old, ...added])]: old, then what added brings that is new.
Union(old, added) ==
    old \o SelectSeq(added, LAMBDA x : ~\E k \in 1..Len(old) : old[k] = x)

\* The index of the entry of ip in the Map, or 0.
EntryOf(map, ip) ==
    IF \E k \in 1..Len(map) : map[k].sourceIp = ip
    THEN CHOOSE k \in 1..Len(map) : map[k].sourceIp = ip
    ELSE 0

\* The first part of logTraffic: the entry of sourceIp, fetched or created,
\* with its request counted (its arrays are assigned separately).
Counted(map, ip, t) ==
    IF EntryOf(map, ip) = 0
    THEN [protocol |-> thisProtocol, requestCount |-> 1,
          timeWindow |-> trafficWindow, uniqueIps |-> <<ip>>, timestamp |-> t,
          sourceIp |-> ip, paths |-> 0, queryTypes |-> 0]
    ELSE [map[EntryOf(map, ip)] EXCEPT
            !.uniqueIps = Union(@, <<ip>>),
            !.timestamp = t,
            !.requestCount = @ + 1]

\* Allocated that also writes the new paths into the array that data.paths
\* referred to before (as data.paths.push would).
AllocatedAndPushed(heap, data, rd) ==
    LET pushed ==
            IF IsDefined(rd.paths) /\ data.paths # 0
            THEN [heap EXCEPT ![data.paths] = Union(@, rd.paths.items)]
            ELSE heap
        withPaths ==
            IF IsDefined(rd.paths)
            THEN Append(pushed, Union(Deref(heap, data.paths).items, rd.paths.items))
            ELSE pushed
    IN  IF IsDefined(rd.queryTypes)
        THEN Append(withPaths,
                    Union(Deref(heap, data.queryTypes).items, rd.queryTypes.items))
        ELSE withPaths

\* data.paths = [...new Set([...(data.paths || []), ...requestData.paths])]:
\* the heap after the assignments of paths and queryTypes. Each assignment
\* allocates a new array.
Allocated(heap, data, rd) ==
    LET withPaths ==
            IF IsDefined(rd.paths)
            THEN Append(heap, Union(Deref(heap, data.paths).items, rd.paths.items))
            ELSE heap
    IN  IF IsDefined(rd.queryTypes)
        THEN Append(withPaths,
                    Union(Deref(heap, data.queryTypes).items, rd.queryTypes.items))
        ELSE withPaths

\* The entry after the assignments: it refers to the new arrays.
Assigned(heap, data, rd) ==
    [data EXCEPT
        !.paths = IF IsDefined(rd.paths) THEN Len(heap) + 1 ELSE @,
        !.queryTypes =
            CASE ~IsDefined(rd.queryTypes) -> @
              [] IsDefined(rd.paths) -> Len(heap) + 2
              [] OTHER -> Len(heap) + 1]

\* this.trafficData.set(sourceIp, data) for a new entry; an entry that
\* exists is changed in place.
Stored(map, data) ==
    IF EntryOf(map, data.sourceIp) = 0
    THEN Append(map, data)
    ELSE [map EXCEPT ![EntryOf(map, data.sourceIp)] = data]

\* trafficDataForAnalysis = {...data, uniqueIps: Array.from(data.uniqueIps)}:
\* the numbers and the new uniqueIps array by value, paths and queryTypes by
\* reference.
Snapshot(data) == data

\* What a snapshot reads as, with its arrays looked up in the heap.
ReadSnapshot(heap, snap) ==
    [requestCount |-> snap.requestCount,
     uniqueIps |-> snap.uniqueIps,
     paths |-> Deref(heap, snap.paths),
     queryTypes |-> Deref(heap, snap.queryTypes),
     timestamp |-> snap.timestamp]

InitHoneypot ==
    /\ OtherIdle
    /\ AlertIdle
    /\ DnsIdle
    /\ RuleIdle
    /\ PredictIdle
    /\ AnalyzerIdle
    /\ thisProtocol \in HoneypotProtocols
    /\ trafficMap = <<>>
    /\ arrays = <<>>
    /\ events = <<>>
    /\ nextSweep = trafficWindow
    /\ lastSweep = NoSweep

\* Time passes.
Advance ==
    /\ ticks < MaxAdvances
    /\ \E d \in AdvanceSteps : now' = now + d
    /\ ticks' = ticks + 1
    /\ lastSweep' = NoSweep
    /\ UNCHANGED <<otherVars, activeAlerts, listeners, lastRaise, lastCreated, ruleVars,
                   predictVars, analyzerVars, dnsVars, thisProtocol, trafficMap, arrays,
                   events, nextSweep>>

\* logTraffic(sourceIp, requestData) up to `await this.analyzeTraffic(...)`,
\* which runs up to `await this.aiPredictor.predictAttack(trafficData)`.
logTraffic ==
    /\ Len(events) < MaxEvents
    /\ \E ip \in HoneypotIps, rd \in RequestDatas :
        LET data == Assigned(arrays, Counted(trafficMap, ip, now), rd)
            heap == Allocated(arrays, Counted(trafficMap, ip, now), rd)
        IN  /\ trafficMap' = Stored(trafficMap, data)
            /\ arrays' = heap
            /\ events' = Append(events,
                    [ip |-> ip, at |-> now, pc |-> "predict", alert |-> FALSE,
                     attackType |-> "", attackId |-> "", alertAt |-> -1,
                     snapshot |-> Snapshot(data),
                     taken |-> ReadSnapshot(heap, Snapshot(data))])
    /\ lastSweep' = NoSweep
    /\ UNCHANGED <<otherVars, alertVars, ruleVars, predictVars, analyzerVars, dnsVars, thisProtocol,
                   nextSweep>>

\* analyzeTraffic resumes: predictAttack has returned a classification, with
\* a confidence above 0.5 or not. Above it, an attack id is generated and
\* logAttack submits the attack to the ledger under it and is awaited.
classified ==
    /\ \E i \in 1..Len(events), high \in BOOLEAN, type \in HoneypotAttackTypes :
        /\ events[i].pc = "predict"
        /\ events' = IF high
                      THEN [events EXCEPT ![i].pc = "logAttack",
                                          ![i].attackType = type,
                                          ![i].attackId = uuidv4(i)]
                      ELSE [events EXCEPT ![i].pc = "done"]
    /\ lastSweep' = NoSweep
    /\ UNCHANGED <<otherVars, alertVars, ruleVars, predictVars, analyzerVars, dnsVars, thisProtocol,
                   trafficMap, arrays, nextSweep>>

\* analyzeTraffic resumes: logAttack has returned (the ledger answered, or
\* failed and logAttack caught it) and emitAlert emits the alert.
emitAlert ==
    /\ \E i \in 1..Len(events) :
        /\ events[i].pc = "logAttack"
        /\ events' = [events EXCEPT ![i].pc = "done", ![i].alert = TRUE,
                                      ![i].alertAt = now]
    /\ lastSweep' = NoSweep
    /\ UNCHANGED <<otherVars, alertVars, ruleVars, predictVars, analyzerVars, dnsVars, thisProtocol,
                   trafficMap, arrays, nextSweep>>

\* Expired with the entry at the start of the window included.
ExpiredInclusive(data, t) == data.timestamp <= t - trafficWindow

\* data.timestamp < windowStart, with windowStart = now - this.trafficWindow
Expired(data, t) == data.timestamp < t - trafficWindow

\* The timer of the constructor fires: cleanupTrafficData deletes the
\* entries whose timestamp is before the window.
cleanupTrafficData ==
    /\ now >= nextSweep
    /\ nextSweep' = nextSweep + trafficWindow
    /\ trafficMap' = SelectSeq(trafficMap, LAMBDA data : ~Expired(data, now))
    /\ lastSweep' = [at |-> now, before |-> trafficMap]
    /\ UNCHANGED <<otherVars, alertVars, ruleVars, predictVars, analyzerVars, dnsVars, thisProtocol,
                   arrays, events>>

NextHoneypot == Advance \/ logTraffic \/ classified \/ emitAlert \/ cleanupTrafficData

SpecHoneypot == InitHoneypot /\ [][NextHoneypot]_vars

(***************************************************************************)
(* DnsHoneypot.handleDnsQuery: the decoy that stores and classifies a DNS  *)
(* message and then answers it.                                            *)
(***************************************************************************)

\* Bound of the DNS decoy model.
MaxQueries == 3

\* The documents of the source that are in the store at the start.
StoredAtStart == {0, 9, 10}

InitDns ==
    /\ OtherIdle
    /\ AlertIdle
    /\ RuleIdle
    /\ PredictIdle
    /\ AnalyzerIdle
    /\ HoneypotIdle
    /\ queries = <<>>
    /\ storedLogs \in StoredAtStart

\* A message arrives: handleDnsQuery runs up to
\* `await TrafficLogModel.create(trafficLog)`.
handleDnsQuery ==
    /\ Len(queries) < MaxQueries
    /\ queries' = Append(queries, [pc |-> "create", sent |-> FALSE])
    /\ UNCHANGED <<otherVars, storedLogs, alertVars, ruleVars, predictVars, analyzerVars, honeypotVars>>

\* create resolves and the handler awaits TrafficLogModel.find(...), or
\* create rejects and the handler ends without an answer.
created ==
    \E i \in 1..Len(queries), ok \in BOOLEAN :
        /\ queries[i].pc = "create"
        /\ queries' = [queries EXCEPT ![i].pc = IF ok THEN "find" ELSE "failed"]
        /\ storedLogs' = IF ok THEN storedLogs + 1 ELSE storedLogs
        /\ UNCHANGED <<otherVars, alertVars, ruleVars, predictVars, analyzerVars, honeypotVars>>

\* find resolves with recentTraffic (at most 100 documents): with more than
\* 10 the handler awaits predictAttack, otherwise it sends the response; or
\* find rejects and the handler ends without an answer.
found ==
    \E i \in 1..Len(queries), ok \in BOOLEAN :
        /\ queries[i].pc = "find"
        /\ queries' =
             [queries EXCEPT ![i] =
                CASE ~ok -> [pc |-> "failed", sent |-> FALSE]
                  [] (IF storedLogs > 100 THEN 100 ELSE storedLogs) > 10 ->
                        [pc |-> "predict", sent |-> FALSE]
                  [] OTHER -> [pc |-> "done", sent |-> TRUE]]
        /\ UNCHANGED <<otherVars, storedLogs, alertVars, ruleVars, predictVars, analyzerVars, honeypotVars>>

\* predictAttack returns or throws (the handler catches it), and the handler
\* sends the response.
answered ==
    \E i \in 1..Len(queries) :
        /\ queries[i].pc = "predict"
        /\ queries' = [queries EXCEPT ![i] = [pc |-> "done", sent |-> TRUE]]
        /\ UNCHANGED <<otherVars, storedLogs, alertVars, ruleVars, predictVars, analyzerVars, honeypotVars>>

NextDns == handleDnsQuery \/ created \/ found \/ answered

SpecDns == InitDns /\ [][NextDns]_vars

SpecAlert == InitAlert /\ [][NextAlert]_vars

SpecRule == InitRule /\ [][NextRule]_vars

(***************************************************************************)
(* Claims about the AlertService, checked under SpecAlert.                 *)
(***************************************************************************)

\* The alert stored under the key of the triple of the latest call.
StoredForLast ==
    MapGet(activeAlerts, lastRaise.triple[1] \o "-" \o lastRaise.triple[2]
                         \o "-" \o lastRaise.triple[3])

\* C1: once raiseAlert has created an alert for a triple at time t, a
\* raiseAlert for that triple at t' with t' - t < 60000 creates no alert and
\* calls no subscriber (the alert of time t stays stored); one at t' with
\* t' - t >= 60000 creates and stores a new alert and publishes it: every
\* subscriber is called, up to the first one that throws.
C1_Cooldown ==
    (lastRaise.outcome # "none" /\ lastRaise.prev # -1) =>
        IF lastRaise.at - lastRaise.prev < ALERT_COOLDOWN
        THEN /\ lastRaise.outcome = "suppressed"
             /\ lastRaise.id = ""
             /\ lastRaise.invoked = <<>>
             /\ StoredForLast.timestamp = lastRaise.prev
        ELSE /\ lastRaise.outcome \in {"published", "failed"}
             /\ StoredForLast.id = lastRaise.id
             /\ StoredForLast.timestamp = lastRaise.at
             /\ lastCreated[lastRaise.triple] = lastRaise.at
             /\ (listeners # <<>> => lastRaise.invoked # <<>>)
             /\ (~lastRaise.threw => lastRaise.invoked = listeners)

\* A second alert for a triple is published exactly one cooldown after the
\* first, to two subscribers.
C1_Witness ==
    /\ lastRaise.outcome = "published"
    /\ lastRaise.prev # -1
    /\ lastRaise.at - lastRaise.prev = ALERT_COOLDOWN
    /\ Len(lastRaise.invoked) = 2

\* C2: what getActiveAlerts returns holds at most one alert per
\* (sourceIp, protocol, attackType).
C2_OneActivePerTriple ==
    \A i, j \in 1..Len(getActiveAlerts) :
        Triple(getActiveAlerts[i]) = Triple(getActiveAlerts[j]) => i = j

\* The alert of a triple was replaced after its cooldown while the alert of
\* another triple is stored too.
C2_Witness ==
    /\ Len(getActiveAlerts) = 2
    /\ lastRaise.outcome = "published"
    /\ lastRaise.prev # -1

\* C3: when a subscriber callback throws during a publish, every subscribed
\* callback has still received the alert, raiseAlert has not failed, the alert
\* is stored under its key and the cleanup of expired alerts has run.
C3_SubscriberIsolation ==
    lastRaise.threw =>
        /\ lastRaise.invoked = listeners
        /\ lastRaise.outcome = "published"
        /\ StoredForLast.id = lastRaise.id
        /\ lastRaise.cleaned

(***************************************************************************)
(* Claims about the classifier, checked under SpecPredict and SpecRule.    *)
(***************************************************************************)

\* C4: for a snapshot with requestCount >= 0 and timeWindow >= 0, the
\* confidence of simpleRuleBasedClassification and the confidence of every
\* classification that predictAttack has returned are numbers in [0,1].
C4_ConfidenceInUnitInterval ==
    LET InUnit(x) == x.k = "fin" /\ 0 <= x.n /\ x.n <= x.d
    IN  /\ InUnit(simpleRuleBasedClassification(trafficData, now).confidence)
        /\ \A i \in 1..Len(calls) :
              calls[i].pc = "done" => InUnit(calls[i].out.confidence)

\* C6: two predictAttack calls on the same snapshot that both got an answer
\* from the network return the same attackType, confidence and indicators.
C6_Deterministic ==
    \A i, j \in 1..Len(calls) :
        (/\ calls[i].pc = "done" /\ ~calls[i].fellBack
         /\ calls[j].pc = "done" /\ ~calls[j].fellBack) =>
            /\ calls[i].out.attackType = calls[j].out.attackType
            /\ calls[i].out.confidence = calls[j].out.confidence
            /\ calls[i].out.indicators = calls[j].out.indicators

\* C9: with the protocol's thresholds (http 10/20, dns 8/15, smtp 5/10), a
\* snapshot with rps > attack is classified ddos with confidence
\* min((rps - attack)/attack, 1), and otherwise one with rps > suspicious is
\* classified suspicious with confidence
\* (rps - suspicious)/(attack - suspicious). That is the returned
\* classification when no protocol check fires; a protocol check that fires
\* applies its boost to that confidence.
C9_BaselineRule ==
    \A k \in 1..Len(ruleOut) :
        LET out == ruleOut[k]
            rc == trafficData.requestCount
            tw == trafficData.timeWindow
            sus == CASE trafficData.protocol = "dns" -> 8
                     [] trafficData.protocol = "smtp" -> 5
                     [] OTHER -> 10
            att == CASE trafficData.protocol = "dns" -> 15
                     [] trafficData.protocol = "smtp" -> 10
                     [] OTHER -> 20
            baseType ==
                CASE tw = 0 /\ rc > 0 -> "ddos"
                  [] tw > 0 /\ rc * 1000 > att * tw -> "ddos"
                  [] tw > 0 /\ rc * 1000 > sus * tw -> "suspicious"
                  [] OTHER -> "below"
            baseConfidence ==
                CASE tw = 0 /\ rc > 0 -> Num(1)
                  [] tw > 0 /\ rc * 1000 - att * tw >= att * tw -> Num(1)
                  [] tw > 0 /\ rc * 1000 > att * tw ->
                        Fin(rc * 1000 - att * tw, att * tw)
                  [] tw > 0 /\ rc * 1000 > sus * tw ->
                        Fin(rc * 1000 - sus * tw, (att - sus) * tw)
                  [] OTHER -> Num(0)
        IN  baseType # "below" =>
                CASE out.details.sensitiveEndpoints ->
                        /\ out.attackType = baseType
                        /\ out.confidence =
                              MathMin(JsAdd(baseConfidence, Fin(1, 10)), Num(1))
                  [] out.details.dnsAmplification ->
                        out.confidence = MathMax(baseConfidence, Fin(8, 10))
                  [] out.details.spamPattern ->
                        out.confidence = MathMax(baseConfidence, Fin(7, 10))
                  [] OTHER ->
                        /\ out.attackType = baseType
                        /\ out.confidence = baseConfidence

\* 21 http requests in a window of 1 s, with no sensitive path, are classified
\* ddos with confidence 0.05.
C9_Witness ==
    /\ ruleOut # <<>>
    /\ trafficData.protocol = "http"
    /\ trafficData.requestCount = 21
    /\ trafficData.timeWindow = 1000
    /\ ruleOut[1].attackType = "ddos"
    /\ ruleOut[1].confidence = Fin(1, 20)
    /\ ~ruleOut[1].details.sensitiveEndpoints

\* C10: a dns snapshot whose query types include ANY is classified
\* dns_amplification with a confidence of at least 0.8, whatever its
\* requestCount, timeWindow and unique IPs.
C10_DnsAny ==
    \A k \in 1..Len(ruleOut) :
        (/\ trafficData.protocol = "dns"
         /\ IsDefined(trafficData.queryTypes)
         /\ \E i \in 1..Len(trafficData.queryTypes.items) :
               trafficData.queryTypes.items[i] = "ANY") =>
            /\ ruleOut[k].attackType = "dns_amplification"
            /\ IsFinite(ruleOut[k].confidence)
            /\ ~JsLt(ruleOut[k].confidence, Fin(8, 10))
            /\ ~JsGt(ruleOut[k].confidence, Num(1))

\* One dns request with query type ANY in a window of 60 s, below every
\* threshold, is classified dns_amplification with confidence 0.8.
C10_Witness ==
    /\ ruleOut # <<>>
    /\ trafficData.protocol = "dns"
    /\ trafficData.requestCount = 1
    /\ trafficData.timeWindow = 60000
    /\ trafficData.queryTypes = Arr(<<"ANY">>)
    /\ ruleOut[1].attackType = "dns_amplification"
    /\ ruleOut[1].confidence = Fin(8, 10)

(***************************************************************************)
(* Claims about the TrafficAnalyzer, checked under SpecAnalyzer.           *)
(***************************************************************************)

\* C5: for every sequence of logs, the suspicious score that
\* calculateMetrics returns is at most 100 and its attackAnalysis.confidence
\* is a number in [0,1].
C5_AnalyzerConfidence ==
    \A k \in 1..Len(metrics) :
        /\ metrics[k].suspiciousScore <= 100
        /\ IsFinite(metrics[k].attackAnalysis.confidence)
        /\ ~JsLt(metrics[k].attackAnalysis.confidence, Num(0))
        /\ ~JsGt(metrics[k].attackAnalysis.confidence, Num(1))

\* C7: a window of 6 events, each less than 100 ms after the one before,
\* and then one event 500 ms later, has exactly one BurstPeriod, with a
\* count of at least 6.
C7_SixEvents ==
    \A k \in 1..Len(metrics) :
        (/\ Len(collection.runs) = 2
         /\ collection.runs[1].count = 6
         /\ collection.runs[1].delay < 100
         /\ collection.runs[2] = [count |-> 1, delay |-> 500]) =>
            /\ Len(metrics[k].attackAnalysis.burstPeriods) = 1
            /\ metrics[k].attackAnalysis.burstPeriods[1].count >= 6

\* C7, amended: a window of n events, each less than 100 ms after the one
\* before, and then one event after a gap of at least 100 ms, has exactly
\* one BurstPeriod when n - 1 > 5 (so from 7 events on), with count n - 1
\* (the number of intervals of the streak), from the first to the last event
\* of the streak; with 6 events or fewer it has no BurstPeriod.
C7_SevenEvents ==
    \A k \in 1..Len(metrics) :
        (/\ Len(collection.runs) = 2
         /\ collection.runs[1].delay < 100
         /\ collection.runs[2].count = 1
         /\ collection.runs[2].delay >= 100) =>
            LET n == collection.runs[1].count
                d == collection.runs[1].delay
                periods == metrics[k].attackAnalysis.burstPeriods
            IN  IF n - 1 > 5
                THEN periods = <<[start |-> d, end |-> n * d, count |-> n - 1,
                                  duration |-> (n - 1) * d]>>
                ELSE periods = <<>>

\* 7 events 10 ms apart and an eighth 500 ms later: one BurstPeriod of count 6.
C7_Witness ==
    /\ collection.runs = <<[count |-> 7, delay |-> 10], [count |-> 1, delay |-> 500]>>
    /\ metrics # <<>>
    /\ Len(metrics[1].attackAnalysis.burstPeriods) = 1
    /\ metrics[1].attackAnalysis.burstPeriods[1].count = 6

C11_NormalBelowSuspicious ==
    \A k \in 1..Len(ruleOut) :
        LET out == ruleOut[k]
            sus == CASE trafficData.protocol = "dns" -> 8
                     [] trafficData.protocol = "smtp" -> 5
                     [] OTHER -> 10
        IN  (/\ ~JsGt(out.details.rps, Num(sus))
             /\ ~out.details.dnsAmplification
             /\ ~out.details.spamPattern
             /\ ~out.details.sensitiveEndpoints
             /\ out.details.ipDiversity = "undefined") =>
                /\ out.attackType = "normal"
                /\ out.confidence = Num(0)

\* C12: for a snapshot with ipRatio < 0.1 and requestCount > 10 whose rps is
\* above the suspicious threshold (the baseline is ddos or suspicious) and on
\* which no protocol check fires, the returned confidence is
\* min(baseline confidence + 0.2, 1).
C12_BoostAfterBaseline ==
    \A k \in 1..Len(ruleOut) :
        LET out == ruleOut[k]
            rc == trafficData.requestCount
            tw == trafficData.timeWindow
            sus == CASE trafficData.protocol = "dns" -> 8
                     [] trafficData.protocol = "smtp" -> 5
                     [] OTHER -> 10
            att == CASE trafficData.protocol = "dns" -> 15
                     [] trafficData.protocol = "smtp" -> 10
                     [] OTHER -> 20
            baseConfidence ==
                IF rc * 1000 > att * tw
                THEN MathMin(Fin(rc * 1000 - att * tw, att * tw), Num(1))
                ELSE Fin(rc * 1000 - sus * tw, (att - sus) * tw)
        IN  (/\ tw > 0
             /\ rc * 1000 > sus * tw
             /\ rc > 10
             /\ 10 * Len(trafficData.uniqueIps) < rc
             /\ ~out.details.dnsAmplification
             /\ ~out.details.spamPattern
             /\ ~out.details.sensitiveEndpoints) =>
                out.confidence = MathMin(JsAdd(baseConfidence, Fin(2, 10)), Num(1))

\* C13: a snapshot with ipRatio < 0.1 and requestCount > 10 whose rps is not
\* above the suspicious threshold and on which no protocol check fires (its
\* type is still normal after the baseline step) is classified suspicious
\* with confidence 0.6; and for a snapshot with ipRatio >= 0.1 or
\* requestCount <= 10 no low-diversity boost is applied.
C13_BoostOnNormal ==
    \A k \in 1..Len(ruleOut) :
        LET out == ruleOut[k]
            rc == trafficData.requestCount
            sus == CASE trafficData.protocol = "dns" -> 8
                     [] trafficData.protocol = "smtp" -> 5
                     [] OTHER -> 10
            low == rc > 10 /\ 10 * Len(trafficData.uniqueIps) < rc
        IN  /\ (/\ low
                /\ ~JsGt(out.details.rps, Num(sus))
                /\ ~out.details.dnsAmplification
                /\ ~out.details.spamPattern
                /\ ~out.details.sensitiveEndpoints) =>
                   /\ out.attackType = "suspicious"
                   /\ out.confidence = Fin(6, 10)
            /\ ~low => out.details.ipDiversity = "undefined"

\* C14: for a snapshot with a window of 0 ms the classifier computes with
\* rps = 0 and does not classify it ddos.
C14_ZeroWindow ==
    \A k \in 1..Len(ruleOut) :
        trafficData.timeWindow = 0 =>
            /\ ruleOut[k].details.rps = Num(0)
            /\ ruleOut[k].attackType # "ddos"

\* C15: a predictAttack call whose computation failed (the inference threw)
\* has returned attackType unknown, confidence 0 and the indicators
\* <<"classification_error">>.
C15_ErrorClassification ==
    \A i \in 1..Len(calls) :
        (calls[i].pc = "done" /\ calls[i].fellBack) =>
            /\ calls[i].out.attackType = "unknown"
            /\ calls[i].out.confidence = Num(0)
            /\ calls[i].out.indicators = <<"classification_error">>

(***************************************************************************)
(* Claims about the BaseHoneypot, checked under SpecHoneypot.              *)
(***************************************************************************)

\* C17: of two events of one key, the alert decision (the test of the
\* classification's confidence) of the one recorded first is taken first: the
\* later event's decision is never taken while the earlier one's is pending.
C17_DecisionsInOrder ==
    \A i, j \in 1..Len(events) :
        (/\ i < j
         /\ events[i].ip = events[j].ip
         /\ events[j].pc # "predict") =>
            events[i].pc # "predict"

\* C18: the snapshot that logTraffic handed to the analysis reads the same
\* as when it was taken (requestCount, uniqueIps, paths, queryTypes,
\* timestamp), whatever was recorded since.
C18_SnapshotIsCopy ==
    \A i \in 1..Len(events) :
        ReadSnapshot(arrays, events[i].snapshot) = events[i].taken

\* The classification of a snapshot with paths is pending while a later
\* event of the same key has added another path to the entry.
C18_Witness ==
    \E i, j \in 1..Len(events) :
        /\ i < j
        /\ events[i].ip = events[j].ip
        /\ events[i].pc = "predict"
        /\ events[i].snapshot.paths # 0
        /\ events[j].snapshot.paths # 0
        /\ Len(events[j].taken.paths.items) = 2

\* C19: the requestCount of a snapshot is the number of events of its key
\* that arrived within the window that ends when the snapshot is taken (an
\* event exactly one window old still counted).
C19_CountsWindowOnly ==
    \A i \in 1..Len(events) :
        events[i].snapshot.requestCount =
            Cardinality({ j \in 1..i :
                            /\ events[j].ip = events[i].ip
                            /\ events[j].at >= events[i].at - trafficWindow })

\* C20: right after a sweep at time now, the entries are those of before
\* the sweep whose last event is not older than the window
\* (now - timestamp <= 60000), each unchanged, and no entry with
\* now - timestamp > 60000 remains.
C20_Sweep ==
    lastSweep.at # -1 =>
        /\ \A k \in 1..Len(lastSweep.before) :
              IF lastSweep.at - lastSweep.before[k].timestamp > 60000
              THEN \A m \in 1..Len(trafficMap) :
                      trafficMap[m].sourceIp # lastSweep.before[k].sourceIp
              ELSE \E m \in 1..Len(trafficMap) :
                      trafficMap[m] = lastSweep.before[k]
        /\ \A m \in 1..Len(trafficMap) :
              \E k \in 1..Len(lastSweep.before) :
                  trafficMap[m] = lastSweep.before[k]
        /\ Len(trafficMap) <= Len(lastSweep.before)

\* A sweep has removed one of two entries and kept the other.
C20_Witness ==
    /\ lastSweep.at # -1
    /\ Len(lastSweep.before) = 2
    /\ Len(trafficMap) = 1

(***************************************************************************)
(* Claim about the decoy's response, checked under SpecDns.                *)
(***************************************************************************)

\* C16: the response to a message does not wait for a downstream operation
\* of that message: while the handler awaits the store (create, find) or the
\* classifier (predictAttack), the response has been sent.
C16_ResponseNotDelayed ==
    \A i \in 1..Len(queries) :
        queries[i].pc \in {"create", "find", "predict"} => queries[i].sent

(***************************************************************************)
(* Claims about the alert index, checked under SpecAlert, and under        *)
(* SpecAlertLive where time is required to pass.                           *)
(***************************************************************************)

\* Time does not stop: the clock is the only thing the service can rely on
\* without a caller. No call of raiseAlert is ever required.
SpecAlertLive == SpecAlert /\ WF_vars(Tick)

\* getActiveAlerts returns an alert that is older than the cooldown.
Stale ==
    \E i \in 1..Len(getActiveAlerts) :
        now - getActiveAlerts[i].timestamp > ALERT_COOLDOWN

\* C21: an alert whose age exceeds the cooldown is eventually no longer
\* returned by getActiveAlerts, whether or not raiseAlert is called again.
C21_EventuallyEvicted == Stale ~> ~Stale

\* C23: every alert in the index has status "active": raiseAlert stores and
\* publishes its alerts as active whatever the caller passes, and no
\* operation of the service resolves one.
C23_StoredActive ==
    \A i \in 1..Len(getActiveAlerts) : getActiveAlerts[i].status = "active"

\* C27: a suppressed raiseAlert leaves the index as it was, the id and the
\* raise time of the stored alert included.
C27_SuppressedIsNoOp ==
    [][lastRaise'.outcome = "suppressed" =>
          /\ activeAlerts' = activeAlerts
          /\ getActiveAlerts' = getActiveAlerts]_vars

\* A call has been suppressed one millisecond before the end of the cooldown
\* of the stored alert.
C27_Witness ==
    /\ lastRaise.outcome = "suppressed"
    /\ lastRaise.at - lastRaise.prev = ALERT_COOLDOWN - 1
    /\ StoredForLast.timestamp = lastRaise.prev

\* C29: the alert is stored before the listeners are called: a listener that
\* calls raiseAlert for the same triple while it is notified is suppressed,
\* so a call that creates an alert creates one, and notifies each listener
\* at most once.
C29_StoredBeforeNotify ==
    lastRaise.outcome \in {"published", "failed"} =>
        /\ lastRaise.reentered = 0
        /\ StoredForLast.id = lastRaise.id
        /\ Len(lastRaise.invoked) <= Len(listeners)
        /\ \A i \in 1..Len(lastRaise.invoked) : lastRaise.invoked[i] = listeners[i]

\* An alert has been published to two listeners that both call raiseAlert
\* again for its triple.
C29_Witness ==
    /\ lastRaise.outcome = "published"
    /\ lastRaise.invoked = <<"reraise", "reraise">>

(***************************************************************************)
(* The alert key as a function of the argument of raiseAlert.              *)
(***************************************************************************)

\* sourceIp is what the request says it is (logRequest takes it from the
\* x-forwarded-for header), attackType is any string.
KeySourceIps == {"10.0.0.1", "10.0.0.1-http", "10.0.0.2"}
KeyProtocols == {"http", "dns"}
KeyAttackTypes == {"ddos", "http-ddos"}
KeyInputs ==
    [sourceIp : KeySourceIps, protocol : KeyProtocols, attackType : KeyAttackTypes]

InitKey ==
    /\ AlertIdle /\ RuleIdle /\ PredictIdle /\ AnalyzerIdle /\ HoneypotIdle
    /\ DnsIdle /\ LedgerIdle /\ LimiterIdle /\ LaterIdle
    /\ alertPair \in KeyInputs \X KeyInputs
    /\ alertKeys = <<>>

\* The first statement of raiseAlert, for each of the two arguments.
alertKey ==
    /\ alertKeys = <<>>
    /\ alertKeys' = <<AlertKey(alertPair[1]), AlertKey(alertPair[2])>>
    /\ UNCHANGED <<alertPair, ledgerVars, limiterVars, laterVars, alertVars, ruleVars, predictVars,
                   analyzerVars, honeypotVars, dnsVars>>

NextKey == alertKey

SpecKey == InitKey /\ [][NextKey]_vars

\* C30: raiseAlert calls whose (sourceIp, protocol, attackType) differ have
\* different alert keys, so neither suppresses nor replaces the other.
C30_DistinctKeys ==
    (alertKeys # <<>> /\ Triple(alertPair[1]) # Triple(alertPair[2])) =>
        alertKeys[1] # alertKeys[2]

(***************************************************************************)
(* AttackLogger: the contract that keeps the attack logs.                  *)
(***************************************************************************)

\* Bounds of the ledger model.
MaxBlocks == 2
MaxLogs == 3

LedgerAttackTypes == {"ddos", "suspicious"}
LedgerConfidences == {51, 100}
Senders == {"0xA", "0xB"}
Starts == 0..2
Limits == 0..2

\* The second require of logAttack without its test (mutant of
\* AlreadyExists).
AlreadyExistsNever(logs, id) == FALSE

\* bytes(attacks[_attackId].attackId).length == 0 is false
AlreadyExists(logs, id) == logs[id].attackId # ""

InitLedger ==
    /\ AlertIdle /\ RuleIdle /\ PredictIdle /\ AnalyzerIdle /\ HoneypotIdle
    /\ DnsIdle /\ KeyIdle /\ LimiterIdle /\ LaterIdle
    /\ LedgerIdle

\* The first require of logAttack without its test (mutant of EmptyId).
EmptyIdNever(id) == FALSE

\* bytes(_attackId).length > 0 is false
EmptyId(id) == id = ""

\* A logAttack that writes the record and does not push the id (mutant of
\* Pushed).
NotPushed(ids, id) == ids

\* attackIds.push(_attackId)
Pushed(ids, id) == Append(ids, id)

\* getAttackIds(start, limit) of the contract: the ids from start, at most
\* limit of them, or the revert of its require.
AttackIdsFrom(ids, start, limit) ==
    LET end == IF start + limit > Len(ids) THEN Len(ids) ELSE start + limit
    IN  IF start < Len(ids)
        THEN [outcome |-> "ok", result |-> SubSeq(ids, start + 1, end)]
        ELSE [outcome |-> "Start index out of bounds", result |-> <<>>]

\* A block is mined.
mine ==
    /\ blockTimestamp < MaxBlocks
    /\ blockTimestamp' = blockTimestamp + 1
    /\ lastTx' = NoTx
    /\ UNCHANGED <<attacks, attackIds, logged, keyVars, limiterVars, laterVars, alertVars, ruleVars,
                   predictVars, analyzerVars, honeypotVars, dnsVars>>

\* logAttack(_attackId, ...): a failed require reverts the transaction.
logAttack ==
    /\ Len(attackIds) < MaxLogs
    /\ \E id \in LedgerIds, type \in LedgerAttackTypes, conf \in LedgerConfidences,
          sender \in Senders :
        LET newAttack == [attackId |-> id, reporter |-> sender,
                          timestamp |-> blockTimestamp, attackType |-> type,
                          confidence |-> conf, sourceIp |-> "10.0.0.1",
                          protocol |-> "http", requestCount |-> 11,
                          indicators |-> <<"requestsPerSecond: 12">>]
            tx == [NoTx EXCEPT !.fn = "logAttack", !.id = id]
        IN  CASE EmptyId(id) ->
                    /\ lastTx' = [tx EXCEPT !.outcome = "Attack ID required"]
                    /\ UNCHANGED <<attacks, attackIds, logged>>
              [] ~EmptyId(id) /\ AlreadyExists(attacks, id) ->
                    /\ lastTx' = [tx EXCEPT !.outcome = "Attack ID already exists"]
                    /\ UNCHANGED <<attacks, attackIds, logged>>
              [] OTHER ->
                    /\ attacks' = [attacks EXCEPT ![id] = newAttack]
                    /\ attackIds' = Pushed(attackIds, id)
                    /\ logged' = Append(logged,
                            [attackId |-> id, reporter |-> sender,
                             timestamp |-> blockTimestamp, attackType |-> type,
                             sourceIp |-> "10.0.0.1", protocol |-> "http"])
                    /\ lastTx' = [tx EXCEPT !.outcome = "ok"]
    /\ UNCHANGED <<blockTimestamp, keyVars, limiterVars, laterVars, alertVars, ruleVars, predictVars,
                   analyzerVars, honeypotVars, dnsVars>>

\* getAttack(_attackId): a view.
getAttack ==
    /\ \E id \in LedgerIds :
        LET tx == [NoTx EXCEPT !.fn = "getAttack", !.id = id]
        IN  lastTx' = IF attacks[id].attackId # ""
                      THEN [tx EXCEPT !.outcome = "ok", !.result = <<attacks[id]>>]
                      ELSE [tx EXCEPT !.outcome = "Attack not found"]
    /\ UNCHANGED <<attacks, attackIds, blockTimestamp, logged, keyVars, limiterVars, laterVars, alertVars,
                   ruleVars, predictVars, analyzerVars, honeypotVars, dnsVars>>

\* getAttackCount(): a view.
getAttackCount == Len(attackIds)

\* getAttackIds(start, limit): a view.
getAttackIds ==
    /\ \E start \in Starts, limit \in Limits :
        lastTx' = [NoTx EXCEPT
                      !.fn = "getAttackIds",
                      !.limit = limit,
                      !.outcome = AttackIdsFrom(attackIds, start, limit).outcome,
                      !.result = AttackIdsFrom(attackIds, start, limit).result]
    /\ UNCHANGED <<attacks, attackIds, blockTimestamp, logged, keyVars, limiterVars, laterVars, alertVars,
                   ruleVars, predictVars, analyzerVars, honeypotVars, dnsVars>>

\* The limits that getRecentAttacks is called with (10 is its default).
RecentLimits == {1, 2, 10}

\* BlockchainLogger.getRecentAttacks(limit): the count, the ids from
\* count - limit (or 0) and the record of each id. The contract's numbers
\* arrive as bigint: count > limit compares, count - limit with limit a
\* number throws a TypeError. A revert of getAttackIds and the TypeError are
\* caught, logged and thrown again. The ledger only grows, and it is read
\* here at one moment.
getRecentAttacks ==
    /\ \E limit \in RecentLimits :
        LET tx == [NoTx EXCEPT !.fn = "getRecentAttacks", !.limit = limit]
            count == getAttackCount
            ids == AttackIdsFrom(attackIds, 0, limit)
        IN  lastTx' =
              CASE count > limit ->
                      [tx EXCEPT !.outcome = "TypeError"]
                [] count <= limit /\ ids.outcome # "ok" ->
                      [tx EXCEPT !.outcome = ids.outcome]
                [] OTHER ->
                      [tx EXCEPT !.outcome = "ok",
                                 !.result = [k \in 1..Len(ids.result) |->
                                                attacks[ids.result[k]]]]
    /\ UNCHANGED <<attacks, attackIds, blockTimestamp, logged, keyVars, limiterVars, laterVars, alertVars,
                   ruleVars, predictVars, analyzerVars, honeypotVars, dnsVars>>

NextLedger == mine \/ logAttack \/ getAttack \/ getAttackIds \/ getRecentAttacks

SpecLedger == InitLedger /\ [][NextLedger]_vars

\* C24: a record that logAttack has written keeps every field, its id keeps
\* its position in attackIds, and attackIds does not shrink, whatever call
\* is made next.
C24_AppendOnly ==
    [][/\ \A id \in LedgerIds :
              attacks[id].attackId # "" => attacks'[id] = attacks[id]
       /\ Len(attackIds') >= Len(attackIds)
       /\ SubSeq(attackIds', 1, Len(attackIds)) = attackIds]_vars

\* A logAttack for an id that was logged in an earlier block has been
\* refused, after both ids were logged.
C24_Witness ==
    /\ lastTx.fn = "logAttack"
    /\ lastTx.outcome = "Attack ID already exists"
    /\ attackIds = <<"a2", "a1">>
    /\ attacks[lastTx.id].timestamp < blockTimestamp

(***************************************************************************)
(* Claims about the ledger submissions and the alerts of BaseHoneypot,     *)
(* checked under SpecHoneypot.                                             *)
(***************************************************************************)

\* C25: an attack is submitted to the ledger once: qualifying events of one
\* source and one attack type (of this honeypot's protocol) that are less
\* than the cooldown apart are submitted under one attack id.
C25_SubmittedOnce ==
    \A i, j \in 1..Len(events) :
        ( /\ i # j
          /\ events[i].attackId # "" /\ events[j].attackId # ""
          /\ events[i].ip = events[j].ip
          /\ events[i].attackType = events[j].attackType
          /\ events[j].at - events[i].at < ALERT_COOLDOWN
          /\ events[i].at - events[j].at < ALERT_COOLDOWN )
        => events[i].attackId = events[j].attackId

\* C26: listeners are notified only of a classification that passed the
\* threshold, and two notifications for one source and attack type are at
\* least the cooldown apart.
C26_AlertsThroughGate ==
    /\ \A i \in 1..Len(events) : events[i].alert => events[i].attackType # ""
    /\ \A i, j \in 1..Len(events) :
        ( /\ i # j
          /\ events[i].alert /\ events[j].alert
          /\ events[i].ip = events[j].ip
          /\ events[i].attackType = events[j].attackType
          /\ events[i].alertAt <= events[j].alertAt )
        => events[j].alertAt - events[i].alertAt >= ALERT_COOLDOWN

(***************************************************************************)
(* A source that has already sent many distinct values, under SpecPaths.   *)
(***************************************************************************)

\* The number of distinct values the source has sent before.
SentBefore == {63, 64}

\* The k-th value: a path of the http decoy, a query type of the dns decoy.
ValueName(k) ==
    IF thisProtocol = "http" THEN "/p" \o ToString(k) ELSE "TYPE" \o ToString(k)

\* The honeypot after n requests of one source within one millisecond, each
\* with a value of its own: the entry that logTraffic has built for it.
InitPaths ==
    /\ OtherIdle
    /\ AlertIdle
    /\ DnsIdle
    /\ RuleIdle
    /\ PredictIdle
    /\ AnalyzerIdle
    /\ thisProtocol \in HoneypotProtocols
    /\ \E n \in SentBefore :
        /\ arrays = << [k \in 1..n |-> ValueName(k)] >>
        /\ trafficMap =
             << [protocol |-> thisProtocol, requestCount |-> n,
                 timeWindow |-> trafficWindow, uniqueIps |-> <<"10.0.0.1">>,
                 timestamp |-> 0, sourceIp |-> "10.0.0.1",
                 paths |-> IF thisProtocol = "http" THEN 1 ELSE 0,
                 queryTypes |-> IF thisProtocol = "http" THEN 0 ELSE 1] >>
    /\ events = <<>>
    /\ nextSweep = trafficWindow
    /\ lastSweep = NoSweep

SpecPaths == InitPaths /\ [][NextHoneypot]_vars

\* C22: the distinct values kept for a source (paths, query types) are at
\* most 64: a new value that arrives when 64 are kept is not added.
C22_AtMost64 ==
    \A m \in 1..Len(trafficMap) :
        /\ Len(Deref(arrays, trafficMap[m].paths).items) <= 64
        /\ Len(Deref(arrays, trafficMap[m].queryTypes).items) <= 64

(***************************************************************************)
(* Claim about the burst periods, checked under SpecAnalyzer.              *)
(***************************************************************************)

\* The streaks of a window that a gap ends, read off its runs: runs i..j
\* all have a delay below 100 ms, the run before them (if any) has not, and
\* the run after them exists and has not.
EndedStreaks(runs) ==
    { ij \in (1..Len(runs)) \X (1..Len(runs)) :
        /\ ij[1] <= ij[2]
        /\ ij[2] < Len(runs)
        /\ \A r \in ij[1]..ij[2] : runs[r].delay < 100
        /\ ij[1] > 1 => runs[ij[1] - 1].delay >= 100
        /\ runs[ij[2] + 1].delay >= 100 }

\* The period of a streak: from its first event (the event before its first
\* interval) to its last event, with the number of its intervals.
PeriodOf(runs, ij) ==
    LET first == IF ij[1] = 1 THEN 1 ELSE Total(SubSeq(runs, 1, ij[1] - 1))
        last == Total(SubSeq(runs, 1, ij[2]))
    IN  [start |-> Arrival(runs, first),
         end |-> Arrival(runs, last),
         count |-> last - first,
         duration |-> Arrival(runs, last) - Arrival(runs, first)]

\* C28: the burst periods of a window are the periods of the streaks of
\* more than 5 intervals below 100 ms that an interval of 100 ms or more
\* ends, in order, each from the streak's first event to its last with the
\* streak's length as count; a streak that the window's last event is part
\* of has no period, and a streak starts counting at 0 after a gap.
C28_BurstPeriods ==
    \A k \in 1..Len(metrics) :
        LET periods == metrics[k].attackAnalysis.burstPeriods
            expected == { PeriodOf(collection.runs, ij) :
                            ij \in { s \in EndedStreaks(collection.runs) :
                                       PeriodOf(collection.runs, s).count > 5 } }
        IN  /\ Len(periods) = Cardinality(expected)
            /\ \A p \in expected : \E n \in 1..Len(periods) : periods[n] = p
            /\ \A n \in 1..(Len(periods) - 1) : periods[n].end < periods[n + 1].start

\* 7 events 10 ms apart, one 500 ms later and 7 more 10 ms apart: the first
\* streak has a period, the second, still running at the end, has none.
C28_Witness ==
    /\ collection.runs = <<[count |-> 7, delay |-> 10], [count |-> 1, delay |-> 500],
                           [count |-> 7, delay |-> 10]>>
    /\ metrics # <<>>
    /\ metrics[1].attackAnalysis.burstPeriods =
         <<[start |-> 10, end |-> 70, count |-> 6, duration |-> 60]>>
    /\ metrics[1].burstCount = 13

(***************************************************************************)
(* Claim about the cleanup of the alert index, checked under SpecAlert.    *)
(***************************************************************************)

\* C31: the cleanup does not change what raiseAlert decides. lastCreated is
\* the index as it would be without any cleanup (per triple, the raise time
\* of the last alert created): an alert whose age is at most the cooldown is
\* still in the index, and for every argument the suppression test on the
\* index gives what it gives on lastCreated.
C31_CleanupTransparent ==
    \A a \in AlertInputs :
        LET createdAt == lastCreated[Triple(a)]
        IN  /\ (createdAt # -1 /\ now - createdAt <= ALERT_COOLDOWN) =>
                  /\ MapHas(activeAlerts, AlertKey(a))
                  /\ MapGet(activeAlerts, AlertKey(a)).timestamp = createdAt
            /\ Suppressed(activeAlerts, a, now)
                 <=> (createdAt # -1 /\ now - createdAt < ALERT_COOLDOWN)

\* A raiseAlert has run the cleanup, which has deleted the alert of the
\* other triple, older than the cooldown.
C31_Witness ==
    /\ lastRaise.outcome = "published"
    /\ lastRaise.cleaned
    /\ \E tr \in Triples : lastCreated[tr] # -1 /\ now - lastCreated[tr] > ALERT_COOLDOWN
    /\ Len(activeAlerts) = 1

(***************************************************************************)
(* Claim about the rule classifier, checked under SpecRule.                *)
(***************************************************************************)

\* C32: with the protocol, the window, the paths, the query types and the
\* unique IPs fixed, a snapshot with a larger requestCount is not classified
\* with a lower confidence, and not as suspicious or normal when the smaller
\* one is classified ddos. (Both counts are at least the number of unique
\* IPs, and the window is not empty of time.)
C32_MonotoneInRequestCount ==
    \A k \in 1..Len(ruleOut), rc \in RuleRequestCounts :
        ( /\ rc > trafficData.requestCount
          /\ trafficData.requestCount >= Len(trafficData.uniqueIps)
          /\ trafficData.timeWindow > 0 ) =>
            LET more == simpleRuleBasedClassification(
                            [trafficData EXCEPT !.requestCount = rc], 0)
            IN  /\ ~JsLt(more.confidence, ruleOut[k].confidence)
                /\ ruleOut[k].attackType = "ddos" => more.attackType = "ddos"

(***************************************************************************)
(* Claims about the contract's calls, checked under SpecLedger.            *)
(***************************************************************************)

\* C33: a logAttack with an empty id, or with an id that has a record, fails
\* and changes nothing: no record, not attackIds, and no AttackLogged event.
C33_RejectedLeavesState ==
    [][(lastTx'.fn = "logAttack"
          /\ (lastTx'.id = "" \/ attacks[lastTx'.id].attackId # "")) =>
            /\ lastTx'.outcome # "ok"
            /\ attacks' = attacks
            /\ attackIds' = attackIds
            /\ logged' = logged]_vars

\* A logAttack with the empty id has been refused on a ledger that holds a
\* record.
C33_Witness ==
    /\ lastTx.fn = "logAttack"
    /\ lastTx.outcome = "Attack ID required"
    /\ Len(attackIds) = 1
    /\ Len(logged) = 1

\* C34: attackIds has no duplicate, holds exactly the ids that have a record
\* (for which getAttack succeeds), and its length, getAttackCount(), is the
\* number of logAttack calls that succeeded (one AttackLogged event each).
C34_IdsMatchRecords ==
    /\ \A i, j \in 1..Len(attackIds) : attackIds[i] = attackIds[j] => i = j
    /\ \A id \in LedgerIds :
          (\E i \in 1..Len(attackIds) : attackIds[i] = id) <=> attacks[id].attackId # ""
    /\ getAttackCount = Len(logged)

\* Both ids have been logged, by two calls.
C34_Witness ==
    /\ Len(attackIds) = 2
    /\ Len(logged) = 2
    /\ lastTx.fn = "getAttack"
    /\ lastTx.outcome = "ok"

\* C35: getRecentAttacks(limit) returns the last min(limit, count) records
\* in the order they were logged, and the empty list on an empty ledger.
C35_RecentAttacks ==
    lastTx.fn = "getRecentAttacks" =>
        LET count == Len(attackIds)
            n == IF lastTx.limit < count THEN lastTx.limit ELSE count
        IN  /\ lastTx.outcome = "ok"
            /\ lastTx.result = [k \in 1..n |-> attacks[attackIds[count - n + k]]]

(***************************************************************************)
(* Claim about the unique paths, checked under SpecAnalyzer.               *)
(***************************************************************************)

\* C38: uniquePaths holds the path of every log of the window, the first
\* one included: a window whose logs all request different paths reports
\* as many unique paths as it has logs.
C38_EveryPathCounted ==
    \A k \in 1..Len(metrics) :
        /\ \A i \in 1..Len(Logs(collection)) :
              \E n \in 1..Len(metrics[k].uniquePaths) :
                  metrics[k].uniquePaths[n] = Logs(collection)[i].path
        /\ collection.paths = "distinct" =>
              Len(metrics[k].uniquePaths) = Total(collection.runs)

(***************************************************************************)
(* RateLimiter: isRateLimited per key and the cleanup timer.               *)
(***************************************************************************)

\* Bounds of the rate limiter model: the bursts of calls and the advances
\* of the clock.
MaxBursts == 3
MaxElapses == 2

LimiterKeys == {"10.0.0.1", "10.0.0.2"}
\* The number of calls that a key makes within one millisecond.
BurstSizes == {1, 1000}
ElapseSteps == {1, 60000}

\* A call that is refused from the maxRequests-th on (mutant of Called).
CalledLimitsAtMax(st, t) ==
    IF ~st.has \/ t - st.limit.firstRequest > windowMs
    THEN [has |-> TRUE,
          limit |-> [count |-> 1, firstRequest |-> t, lastRequest |-> t],
          admitted |-> st.admitted + 1,
          limited |-> FALSE]
    ELSE [has |-> TRUE,
          limit |-> [st.limit EXCEPT !.count = @ + 1, !.lastRequest = t],
          admitted |-> IF st.limit.count + 1 >= maxRequests
                       THEN st.admitted ELSE st.admitted + 1,
          limited |-> st.limit.count + 1 >= maxRequests]

\* isRateLimited(key) at time t, on the entry of the key (has: the key is in
\* the map): the entry after the call, the calls admitted so far in the
\* burst and what this call returns.
Called(st, t) ==
    IF ~st.has \/ t - st.limit.firstRequest > windowMs
    THEN [has |-> TRUE,
          limit |-> [count |-> 1, firstRequest |-> t, lastRequest |-> t],
          admitted |-> st.admitted + 1,
          limited |-> FALSE]
    ELSE [has |-> TRUE,
          limit |-> [st.limit EXCEPT !.count = @ + 1, !.lastRequest = t],
          admitted |-> IF st.limit.count + 1 > maxRequests
                       THEN st.admitted ELSE st.admitted + 1,
          limited |-> st.limit.count + 1 > maxRequests]

\* n calls of isRateLimited(key) one after the other at time t.
RECURSIVE CalledTimes(_, _, _)
CalledTimes(st0, t0, n0) ==
    The({ CASE n = 0 -> st
            [] n = 1 -> Called(st, t)
            [] OTHER -> CalledTimes(CalledTimes(st, t, n \div 2), t, n - (n \div 2)) :
          st \in {st0}, t \in {t0}, n \in {n0} })

\* The entry of a key before a burst.
EntryBefore(m, key) ==
    [has |-> MapHas(m, key),
     limit |-> IF MapHas(m, key) THEN MapGet(m, key)
               ELSE [count |-> 0, firstRequest |-> 0, lastRequest |-> 0],
     admitted |-> 0,
     limited |-> FALSE]

InitLimiter ==
    /\ AlertIdle /\ RuleIdle /\ PredictIdle /\ AnalyzerIdle /\ HoneypotIdle
    /\ DnsIdle /\ KeyIdle /\ LedgerIdle
    /\ LimiterIdle /\ LaterIdle

\* Time passes.
Elapse ==
    /\ ticks < MaxElapses
    /\ \E d \in ElapseSteps : now' = now + d
    /\ ticks' = ticks + 1
    /\ UNCHANGED <<limiterVars, keyVars, laterVars, ledgerVars, activeAlerts, listeners,
                   lastRaise, lastCreated, ruleVars, predictVars, analyzerVars,
                   honeypotVars, dnsVars>>

\* A key calls isRateLimited n times within the current millisecond.
isRateLimited ==
    /\ Len(limiterCalls) < MaxBursts
    /\ \E key \in LimiterKeys, n \in BurstSizes :
        \E after \in {CalledTimes(EntryBefore(limits, key), now, n)} :
            /\ limits' = MapSet(limits, key, after.limit)
            /\ limiterCalls' = Append(limiterCalls,
                    [key |-> key, at |-> now, n |-> n,
                     admitted |-> after.admitted, limited |-> after.limited])
    /\ UNCHANGED <<nextCleanup, keyVars, laterVars, ledgerVars, alertVars, ruleVars,
                   predictVars, analyzerVars, honeypotVars, dnsVars>>

\* The timer of the constructor fires: cleanup deletes the keys whose last
\* request is more than windowMs ago.
cleanup ==
    /\ now >= nextCleanup
    /\ nextCleanup' = nextCleanup + 60000
    /\ limits' = SelectSeq(limits, LAMBDA e : ~(now - e.value.lastRequest > windowMs))
    /\ UNCHANGED <<limiterCalls, keyVars, laterVars, ledgerVars, alertVars, ruleVars,
                   predictVars, analyzerVars, honeypotVars, dnsVars>>

NextLimiter == Elapse \/ isRateLimited \/ cleanup

SpecLimiter == InitLimiter /\ [][NextLimiter]_vars

\* The window of a key after the first i bursts, as the windows are
\* defined: a window starts with the key's first request, and with the
\* first request that arrives more than windowMs after the start of the
\* window before it. start is -1 when the key has made no request.
RECURSIVE WindowAfter(_, _, _)
WindowAfter(h, key, i) ==
    IF i = 0 THEN [start |-> -1, count |-> 0]
    ELSE LET before == WindowAfter(h, key, i - 1)
         IN  CASE h[i].key # key -> before
               [] before.start = -1 \/ h[i].at - before.start > windowMs ->
                     [start |-> h[i].at, count |-> h[i].n]
               [] OTHER -> [before EXCEPT !.count = @ + h[i].n]

\* C36: of the calls of a key within one window the first 1000 return false
\* and every later one returns true; the call that starts a window returns
\* false and counts as the first.
C36_FirstThousandPerWindow ==
    \A i \in 1..Len(limiterCalls) :
        LET c == limiterCalls[i]
            w == WindowAfter(limiterCalls, c.key, i)
            earlier == w.count - c.n
            room == IF earlier >= maxRequests THEN 0 ELSE maxRequests - earlier
        IN  /\ c.admitted = IF c.n <= room THEN c.n ELSE room
            /\ c.limited <=> w.count > maxRequests
            /\ (i = Len(limiterCalls) /\ MapHas(limits, c.key)) =>
                  /\ MapGet(limits, c.key).count = w.count
                  /\ MapGet(limits, c.key).firstRequest = w.start

\* A key that was limited has started a new window, in which its first
\* call is admitted.
C36_Witness ==
    /\ Len(limiterCalls) = 3
    /\ limiterCalls[1].key = limiterCalls[2].key
    /\ limiterCalls[2].key = limiterCalls[3].key
    /\ limiterCalls[1].admitted = 1000
    /\ limiterCalls[2].limited
    /\ limiterCalls[2].admitted = 0
    /\ limiterCalls[3].n = 1
    /\ limiterCalls[3].admitted = 1
    /\ limiterCalls[3].at - limiterCalls[1].at = 60001

\* C37: in every interval of windowMs, which can be taken to start at a
\* call, a key has at most maxRequests calls that return false.
C37_AdmittedPerInterval ==
    \A i \in 1..Len(limiterCalls) :
        LET inInterval == { j \in i..Len(limiterCalls) :
                              /\ limiterCalls[j].key = limiterCalls[i].key
                              /\ limiterCalls[j].at - limiterCalls[i].at < windowMs }
            Sum[S \in SUBSET inInterval] ==
                IF S = {} THEN 0
                ELSE LET j == CHOOSE x \in S : TRUE
                     IN  limiterCalls[j].admitted + Sum[S \ {j}]
        IN  Sum[inInterval] <= maxRequests

(***************************************************************************)
(* HttpHoneypot (honeypots/http.ts): the set of blocked addresses under    *)
(* requests, alerts and the timers that end a rate-limit block.            *)
(***************************************************************************)

\* Bounds of the HTTP honeypot model: the handleRequest calls and the
\* advances of the clock.
MaxHttpCalls == 3
MaxWaits == 2

WaitSteps == {150000, 300000}

\* The delay of the setTimeout that ends a rate-limit block.
blockMs == 300000

\* What `await this.rateLimiter.checkLimit(ip, ...)` can do. The RateLimiter
\* class has no method of this name, in which case the call throws a
\* TypeError; a limiter that has one allows or refuses the request.
CheckLimitOutcomes == {"allowed", "refused", "TypeError"}

\* The alerts that the AlertService hands to handleAlert; the confidence is
\* in hundredths.
HttpAlertProtocols == {"HTTP", "http"}
HttpAlertConfidences == {80, 90}

InitHttp ==
    /\ AlertIdle /\ RuleIdle /\ PredictIdle /\ AnalyzerIdle /\ HoneypotIdle
    /\ DnsIdle /\ KeyIdle /\ LedgerIdle /\ LimiterIdle
    /\ HttpIdle /\ ManagerIdle

\* Time passes.
Wait ==
    /\ ticks < MaxWaits
    /\ \E d \in WaitSteps : now' = now + d
    /\ ticks' = ticks + 1
    /\ UNCHANGED <<httpVars, managerVars, keyVars, ledgerVars, limiterVars,
                   activeAlerts, listeners, lastRaise, lastCreated, ruleVars,
                   predictVars, analyzerVars, honeypotVars, dnsVars>>

\* The test of handleAlert.
Blocks(alert) == alert.protocol = "HTTP" /\ alert.confidence > 80

\* When the timer of a rate-limit block at time t is due.
UnblockAt(t) == t + blockMs

\* The AlertService notifies the subscriber of an alert.
handleAlert ==
    /\ \E ip \in HttpIps, protocol0 \in HttpAlertProtocols,
          confidence \in HttpAlertConfidences :
        LET alert == [sourceIp |-> ip, protocol |-> protocol0,
                      confidence |-> confidence]
        IN  IF Blocks(alert)
            THEN /\ blockedIPs' = blockedIPs \cup {alert.sourceIp}
                 /\ blockedFor' = [blockedFor EXCEPT ![alert.sourceIp] = @ \cup {"alert"}]
            ELSE UNCHANGED <<blockedIPs, blockedFor>>
    /\ UNCHANGED <<unblockTimers, requests, managerVars, keyVars, ledgerVars,
                   limiterVars, alertVars, ruleVars, predictVars, analyzerVars,
                   honeypotVars, dnsVars>>

\* handleRequest up to its first await: a blocked address is answered 403.
handleRequest ==
    /\ Len(requests) < MaxHttpCalls
    /\ \E ip \in HttpIps :
        requests' = Append(requests,
            IF ip \in blockedIPs
            THEN [ip |-> ip, pc |-> "done", response |-> "403"]
            ELSE [ip |-> ip, pc |-> "checkLimit", response |-> ""])
    /\ UNCHANGED <<blockedIPs, unblockTimers, blockedFor, managerVars, keyVars,
                   ledgerVars, limiterVars, alertVars, ruleVars, predictVars,
                   analyzerVars, honeypotVars, dnsVars>>

\* handleRequest from the await of checkLimit on. A refused request blocks
\* the address and starts the timer that unblocks it. An allowed request
\* goes on to `this.predictor.predict(data)`: AttackPredictor has no method
\* predict, so that the call throws a TypeError and the handler ends there.
checkLimitSettled ==
    /\ \E i \in 1..Len(requests), outcome \in CheckLimitOutcomes :
        /\ requests[i].pc = "checkLimit"
        /\ IF outcome = "refused"
           THEN /\ blockedIPs' = blockedIPs \cup {requests[i].ip}
                /\ unblockTimers' = Append(unblockTimers,
                        [ip |-> requests[i].ip, due |-> UnblockAt(now)])
                /\ requests' = [requests EXCEPT ![i].pc = "done", ![i].response = "429"]
           ELSE /\ requests' = [requests EXCEPT ![i].pc = "done",
                                                ![i].response = "TypeError"]
                /\ UNCHANGED <<blockedIPs, unblockTimers>>
    /\ UNCHANGED <<blockedFor, managerVars, keyVars, ledgerVars, limiterVars,
                   alertVars, ruleVars, predictVars, analyzerVars,
                   honeypotVars, dnsVars>>

\* A timer of handleRequest fires: () => this.blockedIPs.delete(ip).
unblock ==
    /\ \E i \in 1..Len(unblockTimers) :
        /\ unblockTimers[i].due <= now
        /\ blockedIPs' = blockedIPs \ {unblockTimers[i].ip}
        /\ unblockTimers' = SubSeq(unblockTimers, 1, i - 1)
                            \o SubSeq(unblockTimers, i + 1, Len(unblockTimers))
    /\ UNCHANGED <<requests, blockedFor, managerVars, keyVars, ledgerVars,
                   limiterVars, alertVars, ruleVars, predictVars, analyzerVars,
                   honeypotVars, dnsVars>>

NextHttp == Wait \/ handleAlert \/ handleRequest \/ checkLimitSettled \/ unblock

SpecHttp == InitHttp /\ [][NextHttp]_vars

MaxTrainings == 3

\* The numbers that occur as parts of a version within the bound.
PartValues == {0, 1, 2, 3, 4, 5, 99, 100}

\* parts.join('.')
Join(parts) ==
    ToString(parts[1]) \o "." \o ToString(parts[2]) \o "." \o ToString(parts[3])

\* v.split('.').map(Number), for a version of three decimal parts.
Split(v) ==
    CHOOSE parts \in PartValues \X PartValues \X PartValues : Join(parts) = v

\* currentVersion after the constructor and loadVersionHistory: '1.0.0', or
\* the newest version that has a metadata file in the models directory.
LoadedVersions == {"1.0.0", "1.0.99", "1.99.99"}

compareVersions(v1, v2) ==
    LET parts1 == Split(v1)
        parts2 == Split(v2)
        differ == { i \in 1..3 : parts1[i] # parts2[i] }
        first == CHOOSE i \in differ : \A k \in differ : i <= k
    IN  CASE differ = {} -> 0
          [] parts1[first] > parts2[first] -> 1
          [] OTHER -> -1

generateNextVersion(current) ==
    LET parts == Split(current)
        patch == parts[3] + 1
    IN  CASE patch <= 99 -> Join(<<parts[1], parts[2], patch>>)
          [] parts[2] + 1 <= 99 -> Join(<<parts[1], parts[2] + 1, 0>>)
          [] OTHER -> Join(<<parts[1] + 1, 0, 0>>)

\* The outcomes of an awaited promise.
Settlements == {"resolved", "rejected"}

InitManager ==
    /\ AlertIdle /\ RuleIdle /\ PredictIdle /\ AnalyzerIdle /\ HoneypotIdle
    /\ DnsIdle /\ KeyIdle /\ LedgerIdle /\ LimiterIdle /\ HttpIdle
    /\ currentVersion \in LoadedVersions
    /\ versions = IF currentVersion = "1.0.0" THEN <<>>
                  ELSE <<[key |-> currentVersion,
                          value |-> [version |-> currentVersion]]>>
    /\ trainings = <<>>

\* The calls that have neither returned nor thrown.
InFlight == { i \in 1..Len(trainings) : trainings[i].pc \notin {"returned", "thrown"} }

\* trainNewVersion up to its first await, of generateTrainingData.
trainNewVersion ==
    /\ Len(trainings) < MaxTrainings
    /\ trainings' = Append(trainings,
            [nextVersion |-> generateNextVersion(currentVersion),
             before |-> currentVersion,
             overlaps |-> InFlight,
             pc |-> "generateTrainingData",
             found |-> <<>>, left |-> <<>>])
    /\ UNCHANGED <<currentVersion, versions, httpVars, keyVars, ledgerVars,
                   limiterVars, alertVars, ruleVars, predictVars, analyzerVars,
                   honeypotVars, dnsVars>>

\* What a call that ends notes of the manager's state before and after its
\* last step.
Ended(t, pc, cv, vs) ==
    [t EXCEPT !.pc = pc,
              !.found = <<currentVersion, versions>>,
              !.left = <<cv, vs>>]

\* generateTrainingData settles; createModel follows without an await.
trainingDataSettled ==
    /\ \E i \in 1..Len(trainings), outcome \in Settlements :
        /\ trainings[i].pc = "generateTrainingData"
        /\ trainings' = [trainings EXCEPT ![i] =
                IF outcome = "resolved" THEN [@ EXCEPT !.pc = "trainModel"]
                ELSE Ended(@, "thrown", currentVersion, versions)]
    /\ UNCHANGED <<currentVersion, versions, httpVars, keyVars, ledgerVars,
                   limiterVars, alertVars, ruleVars, predictVars, analyzerVars,
                   honeypotVars, dnsVars>>

\* trainModel settles.
trainModelSettled ==
    /\ \E i \in 1..Len(trainings), outcome \in Settlements :
        /\ trainings[i].pc = "trainModel"
        /\ trainings' = [trainings EXCEPT ![i] =
                IF outcome = "resolved" THEN [@ EXCEPT !.pc = "saveModel"]
                ELSE Ended(@, "thrown", currentVersion, versions)]
    /\ UNCHANGED <<currentVersion, versions, httpVars, keyVars, ledgerVars,
                   limiterVars, alertVars, ruleVars, predictVars, analyzerVars,
                   honeypotVars, dnsVars>>

\* saveModel settles: a saved run is entered in the map and becomes the
\* current version.
saveModelSettled ==
    /\ \E i \in 1..Len(trainings), outcome \in Settlements :
        /\ trainings[i].pc = "saveModel"
        /\ IF outcome = "resolved"
           THEN /\ versions' = MapSet(versions, trainings[i].nextVersion,
                                      [version |-> trainings[i].nextVersion])
                /\ currentVersion' = trainings[i].nextVersion
                /\ trainings' = [trainings EXCEPT ![i] =
                        Ended(@, "returned", currentVersion', versions')]
           ELSE /\ trainings' = [trainings EXCEPT ![i] =
                        Ended(@, "thrown", currentVersion, versions)]
                /\ UNCHANGED <<currentVersion, versions>>
    /\ UNCHANGED <<httpVars, keyVars, ledgerVars, limiterVars, alertVars,
                   ruleVars, predictVars, analyzerVars, honeypotVars, dnsVars>>

NextManager ==
    trainNewVersion \/ trainingDataSettled \/ trainModelSettled \/ saveModelSettled

SpecManager == InitManager /\ [][NextManager]_vars

\* C40: two overlapping trainNewVersion calls have different versions; a
\* call that returns leaves currentVersion greater than it was when the call
\* began; a call that throws leaves currentVersion and the map as they were.
C40_FreshVersion ==
    \A j \in 1..Len(trainings) :
        /\ \A i \in trainings[j].overlaps :
              trainings[i].nextVersion # trainings[j].nextVersion
        /\ trainings[j].pc = "returned" =>
              compareVersions(trainings[j].left[1], trainings[j].before) > 0
        /\ trainings[j].pc = "thrown" => trainings[j].left = trainings[j].found

====
